---- MODULE Spec2Model ----
(***************************************************************************)
(* A model of pycdp's code generator (src/pycdp/gen/generate.py) and of    *)
(* the Python bindings it emits.                                           *)
(*                                                                         *)
(* Strings that the generator takes apart (references, rendered type       *)
(* names, wire method identifiers) are sequences of tokens in which "."    *)
(* is a token of its own: "DOM.NodeId" is <<"DOM", ".", "NodeId">>.        *)
(* Python's None for a reference is the empty sequence (falsy, like None   *)
(* and ''); an optional CdpItems is a sequence of length 0 or 1.           *)
(*                                                                         *)
(* Emitted Python code is modelled by its structure (one record per        *)
(* emitted statement or expression form); the Exec/Eval operators give     *)
(* the Python semantics of each emitted form.                              *)
(***************************************************************************)
EXTENDS Integers, Sequences, FiniteSets, TLC

VARIABLES
    domain,     \* the CdpDomain under compilation
    module,     \* the module emitted by CdpDomain.generate_code, or NotGenerated
    binding,    \* the declaration whose generated binding is used at run time
    code,       \* the code generated for `binding`
    args,       \* the arguments of the command call / the dataclass instance
    pc,         \* the state of the generator object of the command call
    frame,      \* the frame of the generator object
    yielded,    \* the request descriptors the generator has yielded
    sent,       \* the response mappings sent into the generator
    encoded,    \* what to_json() of the instance returned
    input,      \* the mapping given to from_json()
    result,     \* what the command call or from_json() completed with
    mode,       \* the pipeline that runs: "selfgen" or "cdpgen"
    docs,       \* the JSON documents given to the pipeline
    domains,    \* the list `domains` of the pipeline / of fix_protocol_spec
    current_version, \* the module global current_version
    files,      \* the module files in the output directory, by module name
    step,       \* the position of the pipeline
    log,        \* what has been done so far, in order
    raised      \* the exception that ended the pipeline, or NoneV

vars == <<domain, module, binding, code, args, pc, frame, yielded, sent,
          encoded, input, result, mode, docs, domains, current_version,
          files, step, log, raised>>

genVars == <<mode, docs, domains, current_version, files, step, log, raised>>

----------------------------------------------------------------------------
(* Bounds of the model *)

\* longest property / parameter / return list of a declaration
MaxProps == 2

\* longest list of domains given to fix_protocol_spec
MaxDomains == 2

\* number of times fix_protocol_spec is applied to a list of domains
MaxApplications == 2

----------------------------------------------------------------------------
(* Names *)

DOT == "."

\* The domain names of the model (CDP domains whose module names differ
\* from each other; "Input" snake-cases to a Python builtin).
DomainNames == {"DOM", "Runtime", "Input"}

\* wire names of properties, by position in their list
FieldNames == <<"nodeId", "type", "depth", "objectId">>

\* inflection.underscore on the names of the model
underscore(name) ==
    CASE name = "DOM"      -> "dom"
      [] name = "Runtime"  -> "runtime"
      [] name = "Input"    -> "input"
      [] name = "Page"     -> "page"
      [] name = "Network"  -> "network"
      [] name = "resolveNode" -> "resolve_node"
      [] name = "backendNodeId" -> "backend_node_id"
      [] name = "objectGroup" -> "object_group"
      [] name = "nodeId"   -> "node_id"
      [] name = "type"     -> "type"
      [] name = "depth"    -> "depth"
      [] name = "objectId" -> "object_id"
      [] name = "getNode"  -> "get_node"
      [] name = "fooBar"   -> "foo_bar"
      [] name = "foo-bar"  -> "foo_bar"
      [] OTHER             -> name

\* str.upper on the snake-cased enum values of the model
upper(name) ==
    CASE name = "on"      -> "ON"
      [] name = "off"     -> "OFF"
      [] name = "foo_bar" -> "FOO_BAR"

\* the names of the model that `builtins` has as attributes
is_builtin(name) == name \in {"input", "type", "id"}

\* name += '_' on the builtin names of the model
append_underscore(name) ==
    CASE name = "input" -> "input_"
      [] name = "type"  -> "type_"
      [] name = "id"    -> "id_"

snake_case(name) ==
    LET n == underscore(name)
    IN  IF is_builtin(n) THEN append_underscore(n) ELSE n

\* str.split('.') of a string whose dots separate single tokens
split_dot(ref) == SelectSeq(ref, LAMBDA t : t # DOT)

has_dot(ref) == \E i \in 1..Len(ref) : ref[i] = DOT

startswith(s, prefix) ==
    /\ Len(prefix) <= Len(s)
    /\ SubSeq(s, 1, Len(prefix)) = prefix

\* ref_to_python: for a dotted ref, the part before the dot is snake cased
ref_to_python(ref) ==
    IF has_dot(ref)
    THEN LET parts == split_dot(ref)
         IN  <<snake_case(parts[1]), DOT, parts[2]>>
    ELSE ref

\* ref_to_python_domain: a ref qualified with `dom` loses its qualifier
ref_to_python_domain(ref, dom) ==
    IF startswith(ref, <<dom, DOT>>)
    THEN ref_to_python(SubSeq(ref, 3, Len(ref)))
    ELSE ref_to_python(ref)

\* CdpPrimitiveType.get_constructor: the constructor applied to a decoded
\* primitive; none (the value itself) for 'any'
get_constructor(cdp_type) ==
    CASE cdp_type = "any"     -> <<>>
      [] cdp_type = "boolean" -> <<"bool">>
      [] cdp_type = "integer" -> <<"int">>
      [] cdp_type = "number"  -> <<"float">>
      [] cdp_type = "object"  -> <<"dict">>
      [] cdp_type = "string"  -> <<"str">>

\* CdpPrimitiveType.get_annotation
get_annotation(cdp_type) ==
    CASE cdp_type = "any"     -> <<"typing", DOT, "Any">>
      [] cdp_type = "boolean" -> <<"bool">>
      [] cdp_type = "integer" -> <<"int">>
      [] cdp_type = "number"  -> <<"float">>
      [] cdp_type = "object"  -> <<"dict">>
      [] cdp_type = "string"  -> <<"str">>

----------------------------------------------------------------------------
(* Descriptions: None, or a string as the sequence of its tokens, in which *)
(* a backtick is the token BACKTICK.                                       *)

BACKTICK == "<backtick>"

NoDescription == [none |-> TRUE, text |-> <<>>]

Description(text) == [none |-> FALSE, text |-> text]

----------------------------------------------------------------------------
(* The type model: CdpItems, CdpProperty *)

NoRef == <<>>
NoItems == <<>>

CdpItems(type, ref) == <<[type |-> type, ref |-> ref]>>

truthy(x) == x # <<>>

CdpProperty(name, type, ref, items, optional, dom) ==
    [name |-> name, type |-> type, ref |-> ref, items |-> items,
     optional |-> optional, domain |-> dom]

py_name(p) == snake_case(p.name)

\* An annotation "typing.Optional[typing.List[<name>]]" is the record of
\* its three parts.
Annotation(name, list, optional) ==
    [name |-> name, list |-> list, optional |-> optional]

\* CdpProperty.py_annotation
CdpProperty_py_annotation(p) ==
    IF truthy(p.items)
    THEN IF truthy(p.items[1].ref)
         THEN Annotation(ref_to_python_domain(p.items[1].ref, p.domain), TRUE, p.optional)
         ELSE Annotation(get_annotation(p.items[1].type), TRUE, p.optional)
    ELSE IF truthy(p.ref)
         THEN Annotation(ref_to_python_domain(p.ref, p.domain), FALSE, p.optional)
         ELSE Annotation(get_annotation(p.type), FALSE, p.optional)

\* CdpProperty.generate_decl: "<py_name>: <annotation>[ = None]"
CdpProperty_generate_decl(p) ==
    [py_name |-> py_name(p),
     annotation |-> CdpProperty_py_annotation(p),
     default_none |-> p.optional]

\* The form of the expression emitted for a value of the property's shape.
shape_form(p) ==
    IF truthy(p.items)
    THEN IF truthy(p.items[1].ref) THEN "list_ref" ELSE "list_prim"
    ELSE IF truthy(p.ref) THEN "ref" ELSE "prim"

\* the statement without its test "is not None"
CdpProperty_generate_to_json_unguarded(p, dict_, use_self) ==
    [op |-> "assign", dict |-> dict_, key |-> p.name, src |-> py_name(p),
     use_self |-> use_self, form |-> shape_form(p), guarded |-> FALSE]

\* CdpProperty.generate_to_json: the statement
\*   [if <src> is not None:] <dict_>['<name>'] = <expression over src>
CdpProperty_generate_to_json(p, dict_, use_self) ==
    [op |-> "assign", dict |-> dict_, key |-> p.name, src |-> py_name(p),
     use_self |-> use_self, form |-> shape_form(p), guarded |-> p.optional]

\* the expression of a non-optional property for every property
CdpProperty_generate_from_json_unguarded(p, dict_) ==
    [dict |-> dict_, key |-> p.name, form |-> shape_form(p),
     cons |-> IF truthy(p.items)
              THEN IF truthy(p.items[1].ref)
                   THEN ref_to_python_domain(p.items[1].ref, p.domain)
                   ELSE get_constructor(p.items[1].type)
              ELSE IF truthy(p.ref)
                   THEN ref_to_python_domain(p.ref, p.domain)
                   ELSE get_constructor(p.type),
     guarded |-> FALSE]

\* the expression of an optional property, which reads the dict with
\* .get(), for every property
CdpProperty_generate_from_json_lenient(p, dict_) ==
    [dict |-> dict_, key |-> p.name, form |-> shape_form(p),
     cons |-> IF truthy(p.items)
              THEN IF truthy(p.items[1].ref)
                   THEN ref_to_python_domain(p.items[1].ref, p.domain)
                   ELSE get_constructor(p.items[1].type)
              ELSE IF truthy(p.ref)
                   THEN ref_to_python_domain(p.ref, p.domain)
                   ELSE get_constructor(p.type),
     guarded |-> TRUE]

\* CdpProperty.generate_from_json: the expression
\*   <expr over dict_['<name>']> [if dict_.get('<name>', None) is not None else None]
CdpProperty_generate_from_json(p, dict_) ==
    [dict |-> dict_, key |-> p.name, form |-> shape_form(p),
     cons |-> IF truthy(p.items)
              THEN IF truthy(p.items[1].ref)
                   THEN ref_to_python_domain(p.items[1].ref, p.domain)
                   ELSE get_constructor(p.items[1].type)
              ELSE IF truthy(p.ref)
                   THEN ref_to_python_domain(p.ref, p.domain)
                   ELSE get_constructor(p.type),
     guarded |-> p.optional]

----------------------------------------------------------------------------
(* Stable sort on the key `optional` (list.sort / sorted are stable):      *)
(* insertion of each element, left to right, behind the elements whose    *)
(* key is not greater.                                                     *)

optional_key(p) == IF p.optional THEN 1 ELSE 0

RECURSIVE insert_by_optional(_, _)
insert_by_optional(p, s) ==
    IF s = <<>> THEN <<p>>
    ELSE IF optional_key(Head(s)) <= optional_key(p)
         THEN <<Head(s)>> \o insert_by_optional(p, Tail(s))
         ELSE <<p>> \o s

RECURSIVE sort_by_optional(_)
sort_by_optional(ps) ==
    IF ps = <<>> THEN <<>>
    ELSE insert_by_optional(ps[Len(ps)], sort_by_optional(SubSeq(ps, 1, Len(ps) - 1)))

Map(f(_), s) == [i \in 1..Len(s) |-> f(s[i])]

Range(s) == {s[i] : i \in 1..Len(s)}

----------------------------------------------------------------------------
(* CdpType *)

CdpType(id, type, items, enum, properties) ==
    [id |-> id, type |-> type, items |-> items, enum |-> enum,
     properties |-> properties]

\* the properties left in IDL order
CdpType_sorted_props_unsorted(t) == t.properties

\* generate_class_code, lines 410-411: props = list(self.properties); props.sort(...)
CdpType_sorted_props(t) == sort_by_optional(t.properties)

\* CdpType.generate_class_code
CdpType_generate_class_code(t) ==
    LET props == CdpType_sorted_props(t)
        to_json_of(p) == CdpProperty_generate_to_json(p, "json", TRUE)
        from_json_of(p) ==
            [py_name |-> py_name(p), expr |-> CdpProperty_generate_from_json(p, "json")]
    IN  [kind |-> "class", id |-> t.id,
         decls |-> Map(CdpProperty_generate_decl, props),
         to_json |-> Map(to_json_of, props),
         from_json |-> Map(from_json_of, props)]

\* CdpType.generate_primitive_code
CdpType_generate_primitive_code(t) ==
    LET py_type ==
            IF truthy(t.items)
            THEN IF truthy(t.items[1].ref)
                 THEN Annotation(ref_to_python(t.items[1].ref), TRUE, FALSE)
                 ELSE Annotation(get_annotation(t.items[1].type), TRUE, FALSE)
            ELSE Annotation(get_annotation(t.type), FALSE, FALSE)
    IN  [kind |-> "primitive", id |-> t.id,
         superclass |-> IF truthy(t.items) THEN <<"list">> ELSE py_type.name,
         py_type |-> py_type,
         to_json |-> "self", from_json |-> "cls(json)"]

\* the enum whose from_json looks the member up by its constant name
CdpType_generate_enum_code_by_name(t) ==
    LET member(v) == [const |-> upper(snake_case(v)), value |-> v]
    IN  [kind |-> "enum", id |-> t.id, members |-> Map(member, t.enum),
         to_json |-> "self.value", from_json |-> "cls[json]"]

\* CdpType.generate_enum_code: one line '<SNAKE_NAME> = "<member>"' per
\* value of the enum, in order, whatever names the lines before it have;
\* to_json is "return self.value" and from_json is "return cls(json)"
CdpType_generate_enum_code(t) ==
    LET member(v) == [const |-> upper(snake_case(v)), value |-> v]
    IN  [kind |-> "enum", id |-> t.id, members |-> Map(member, t.enum),
         to_json |-> "self.value", from_json |-> "cls(json)"]

\* CdpType.generate_code
CdpType_generate_code(t) ==
    IF truthy(t.enum) THEN CdpType_generate_enum_code(t)
    ELSE IF truthy(t.properties) THEN CdpType_generate_class_code(t)
    ELSE CdpType_generate_primitive_code(t)

\* the refs of a list of properties, parameters or returns
prop_refs(ps) ==
    {ps[i].items[1].ref : i \in {j \in 1..Len(ps) :
            truthy(ps[j].items) /\ truthy(ps[j].items[1].ref)}}
    \cup
    {ps[i].ref : i \in {j \in 1..Len(ps) :
            ~(truthy(ps[j].items) /\ truthy(ps[j].items[1].ref)) /\ truthy(ps[j].ref)}}

\* CdpType.get_refs
CdpType_get_refs(t) ==
    IF truthy(t.enum) THEN {}
    ELSE IF truthy(t.properties) THEN prop_refs(t.properties)
    ELSE IF truthy(t.items) /\ truthy(t.items[1].ref) THEN {t.items[1].ref}
    ELSE {}

----------------------------------------------------------------------------
(* CdpParameter, CdpReturn *)

\* CdpParameter.generate_code: "<py_name>: <py_type>[ = None]" of a call
\* signature; refs are rendered by ref_to_python
CdpParameter_generate_code(p) ==
    LET py_type ==
            IF truthy(p.items)
            THEN IF truthy(p.items[1].ref)
                 THEN Annotation(ref_to_python(p.items[1].ref), TRUE, p.optional)
                 ELSE Annotation(get_annotation(p.items[1].type), TRUE, p.optional)
            ELSE IF truthy(p.ref)
                 THEN Annotation(ref_to_python(p.ref), FALSE, p.optional)
                 ELSE Annotation(get_annotation(p.type), FALSE, p.optional)
    IN  [py_name |-> py_name(p), annotation |-> py_type,
         default_none |-> p.optional]

\* the declaration inherited from CdpProperty, with its default
CdpParameter_generate_decl_inherited(p) == CdpProperty_generate_decl(p)

\* CdpParameter.generate_decl: "<py_name>: <py_annotation>", never a default
CdpParameter_generate_decl(p) ==
    [py_name |-> py_name(p),
     annotation |-> CdpProperty_py_annotation(p),
     default_none |-> FALSE]

\* CdpParameter.generate_from_json: "<py_name>=<from_json expression>"
CdpParameter_generate_from_json(p, dict_) ==
    [py_name |-> py_name(p), expr |-> CdpProperty_generate_from_json(p, dict_)]

\* CdpReturn.py_annotation: refs are rendered by ref_to_python
CdpReturn_py_annotation(r) ==
    IF truthy(r.items)
    THEN IF truthy(r.items[1].ref)
         THEN Annotation(ref_to_python(r.items[1].ref), TRUE, r.optional)
         ELSE Annotation(get_annotation(r.items[1].type), TRUE, r.optional)
    ELSE IF truthy(r.ref)
         THEN Annotation(ref_to_python(r.ref), FALSE, r.optional)
         ELSE Annotation(get_annotation(r.type), FALSE, r.optional)

\* CdpReturn.generate_return
CdpReturn_generate_return(r, dict_) == CdpProperty_generate_from_json(r, dict_)

----------------------------------------------------------------------------
(* CdpCommand *)

\* CdpCommand.from_json of a command object without 'deprecated'
CdpCommand(name, parameters, returns, dom) ==
    [name |-> name, deprecated |-> FALSE, parameters |-> parameters,
     returns |-> returns, domain |-> dom]

\* the parameters sorted with the optional ones first
CdpCommand_sorted_params_reversed(c) ==
    LET s == sort_by_optional(c.parameters)
    IN  [i \in 1..Len(s) |-> s[Len(s) + 1 - i]]

\* generate_code, line 616: sorted(self.parameters, key=1 if optional else 0)
CdpCommand_sorted_params(c) == sort_by_optional(c.parameters)

\* generate_code, lines 599-606: the third argument of typing.Generator
CdpCommand_ret_type(c) ==
    IF Len(c.returns) = 0 THEN [kind |-> "None", types |-> <<>>]
    ELSE IF Len(c.returns) = 1
         THEN [kind |-> "single", types |-> <<CdpReturn_py_annotation(c.returns[1])>>]
         ELSE [kind |-> "Tuple", types |-> Map(CdpReturn_py_annotation, c.returns)]

\* the body that yields the request again when it is resumed
CdpCommand_body_retry(c) ==
    LET assign(p) == CdpProperty_generate_to_json(p, "params", FALSE)
        ret(r) == CdpReturn_generate_return(r, "json")
    IN  (IF truthy(c.parameters) THEN <<[op |-> "new_dict", dict |-> "params"]>> ELSE <<>>)
        \o Map(assign, c.parameters)
        \o <<[op |-> "cmd_dict", method |-> <<c.domain, DOT, c.name>>,
              with_params |-> truthy(c.parameters)]>>
        \o <<[op |-> "yield", target |-> "json", value |-> "cmd_dict"],
             [op |-> "yield", target |-> "json", value |-> "cmd_dict"]>>
        \o (IF Len(c.returns) = 0 THEN <<>>
            ELSE IF Len(c.returns) = 1
                 THEN <<[op |-> "return", tuple |-> FALSE, exprs |-> <<ret(c.returns[1])>>]>>
                 ELSE <<[op |-> "return", tuple |-> TRUE, exprs |-> Map(ret, c.returns)]>>)

\* the body that returns a tuple whenever the command has returns
CdpCommand_body_one_tuple(c) ==
    LET assign(p) == CdpProperty_generate_to_json(p, "params", FALSE)
        ret(r) == CdpReturn_generate_return(r, "json")
    IN  (IF truthy(c.parameters) THEN <<[op |-> "new_dict", dict |-> "params"]>> ELSE <<>>)
        \o Map(assign, c.parameters)
        \o <<[op |-> "cmd_dict", method |-> <<c.domain, DOT, c.name>>,
              with_params |-> truthy(c.parameters)]>>
        \o <<[op |-> "yield", target |-> "json", value |-> "cmd_dict"]>>
        \o (IF Len(c.returns) = 0 THEN <<>>
            ELSE <<[op |-> "return", tuple |-> TRUE, exprs |-> Map(ret, c.returns)]>>)

\* the body whose request descriptor always has the entry 'params'
CdpCommand_body_always_params(c) ==
    LET assign(p) == CdpProperty_generate_to_json(p, "params", FALSE)
        ret(r) == CdpReturn_generate_return(r, "json")
    IN  <<[op |-> "new_dict", dict |-> "params"]>>
        \o Map(assign, c.parameters)
        \o <<[op |-> "cmd_dict", method |-> <<c.domain, DOT, c.name>>,
              with_params |-> TRUE]>>
        \o <<[op |-> "yield", target |-> "json", value |-> "cmd_dict"]>>
        \o (IF Len(c.returns) = 0 THEN <<>>
            ELSE IF Len(c.returns) = 1
                 THEN <<[op |-> "return", tuple |-> FALSE, exprs |-> <<ret(c.returns[1])>>]>>
                 ELSE <<[op |-> "return", tuple |-> TRUE, exprs |-> Map(ret, c.returns)]>>)

\* generate_code, lines 651-676: the statements of the emitted function body
CdpCommand_body(c) ==
    LET assign(p) == CdpProperty_generate_to_json(p, "params", FALSE)
        ret(r) == CdpReturn_generate_return(r, "json")
    IN  (IF truthy(c.parameters) THEN <<[op |-> "new_dict", dict |-> "params"]>> ELSE <<>>)
        \o Map(assign, c.parameters)
        \o <<[op |-> "cmd_dict", method |-> <<c.domain, DOT, c.name>>,
              with_params |-> truthy(c.parameters)]>>
        \o <<[op |-> "yield", target |-> "json", value |-> "cmd_dict"]>>
        \o (IF Len(c.returns) = 0 THEN <<>>
            ELSE IF Len(c.returns) = 1
                 THEN <<[op |-> "return", tuple |-> FALSE, exprs |-> <<ret(c.returns[1])>>]>>
                 ELSE <<[op |-> "return", tuple |-> TRUE, exprs |-> Map(ret, c.returns)]>>)

\* lines 610-611, 726-727: '@deprecated(version="{current_version}")' of
\* a deprecated command or event, with the value that the global
\* current_version has when the code is generated
deprecated_decorator(deprecated) ==
    IF deprecated THEN <<current_version>> ELSE <<>>

\* CdpCommand.generate_code
CdpCommand_generate_code(c) ==
    [kind |-> "def", py_name |-> snake_case(c.name),
     decorator |-> deprecated_decorator(c.deprecated),
     signature |-> IF truthy(c.parameters)
                   THEN Map(CdpParameter_generate_code, CdpCommand_sorted_params(c))
                   ELSE <<>>,
     ret_type |-> CdpCommand_ret_type(c),
     body |-> CdpCommand_body(c)]

\* CdpCommand.get_refs
CdpCommand_get_refs(c) == prop_refs(c.parameters \o c.returns)

----------------------------------------------------------------------------
(* CdpEvent *)

\* CdpEvent.from_json of an event object without 'description' and
\* without 'deprecated'
CdpEvent(name, parameters, dom) ==
    [name |-> name, description |-> NoDescription, deprecated |-> FALSE,
     parameters |-> parameters, domain |-> dom]

\* CdpEvent.generate_code
CdpEvent_generate_code(e) ==
    LET from_json_of(p) == CdpParameter_generate_from_json(p, "json")
    IN  [kind |-> "event", event_class |-> <<e.domain, DOT, e.name>>,
         decorator |-> deprecated_decorator(e.deprecated),
         description |-> e.description,
         decls |-> Map(CdpParameter_generate_decl, e.parameters),
         from_json |-> Map(from_json_of, e.parameters)]

\* CdpEvent.get_refs
CdpEvent_get_refs(e) == prop_refs(e.parameters)

----------------------------------------------------------------------------
(* CdpDomain *)

CdpDomain(name, dependencies, types, commands, events) ==
    [domain |-> name, dependencies |-> dependencies, types |-> types,
     commands |-> commands, events |-> events]

\* CdpDomain.module
CdpDomain_module(d) == snake_case(d.domain)

\* the module names of the model in sorted() order
SortedModuleNames == <<"dom", "input_", "network", "page", "runtime">>

UnionOver(f(_), s) == UNION {f(s[i]) : i \in 1..Len(s)}

\* generate_imports, lines 831-842: the refs of the domain
CdpDomain_refs(d) ==
    UnionOver(CdpType_get_refs, d.types)
    \cup UnionOver(CdpCommand_get_refs, d.commands)
    \cup UnionOver(CdpEvent_get_refs, d.events)

\* the dependencies without the test "domain != self.domain"
CdpDomain_dependencies_with_self(d) ==
    {snake_case(split_dot(ref)[1]) :
        ref \in {r \in CdpDomain_refs(d) : Len(split_dot(r)) = 2}}

\* generate_imports, lines 843-850: "domain, _ = ref.split('.')" raises
\* ValueError, and the ref is skipped, unless the ref has exactly one dot
CdpDomain_dependencies(d) ==
    {snake_case(split_dot(ref)[1]) :
        ref \in {r \in CdpDomain_refs(d) :
                    /\ Len(split_dot(r)) = 2
                    /\ split_dot(r)[1] # d.domain}}

\* CdpDomain.generate_imports: one "from . import <d>" per dependency, sorted
CdpDomain_generate_imports(d) ==
    SelectSeq(SortedModuleNames, LAMBDA m : m \in CdpDomain_dependencies(d))

\* generate_imports with the loop over the events left out
CdpDomain_needs_deprecation_commands_only(d) ==
    \E i \in 1..Len(d.commands) : d.commands[i].deprecated

\* generate_imports, lines 832-842: needs_deprecation, which adds the line
\* 'from deprecated.sphinx import deprecated' to the imports (853-854)
CdpDomain_needs_deprecation(d) ==
    \/ \E i \in 1..Len(d.commands) : d.commands[i].deprecated
    \/ \E i \in 1..Len(d.events) : d.events[i].deprecated

\* CdpDomain.generate_code
CdpDomain_generate_code(d) ==
    [name |-> d.domain,
     imports |-> CdpDomain_generate_imports(d),
     deprecated_import |-> CdpDomain_needs_deprecation(d),
     types |-> Map(CdpType_generate_code, d.types),
     commands |-> Map(CdpCommand_generate_code, d.commands),
     events |-> Map(CdpEvent_generate_code, d.events)]

----------------------------------------------------------------------------
(* The model after generate_code *)

\* the type t after a generate_class_code that sorts self.properties itself
CdpType_after_generate_code_in_place(t) ==
    [t EXCEPT !.properties = sort_by_optional(@)]

\* the type t after t.generate_code(): generate_class_code sorts the copy
\* props = list(self.properties) (lines 410-411), generate_enum_code and
\* generate_primitive_code only read the fields of t
CdpType_after_generate_code(t) == t

\* the command c after c.generate_code(): sorted(self.parameters, ...)
\* (line 616) makes a new list, and the other statements only read c
CdpCommand_after_generate_code(c) == c

\* the event ev after ev.generate_code(), which only reads ev
CdpEvent_after_generate_code(ev) == ev

\* the domain d after d.generate_code(), which calls generate_imports and
\* generate_code of every type, command and event
CdpDomain_after_generate_code(d) ==
    [d EXCEPT !.types = Map(CdpType_after_generate_code, @),
              !.commands = Map(CdpCommand_after_generate_code, @),
              !.events = Map(CdpEvent_after_generate_code, @)]

----------------------------------------------------------------------------
(* Python values at run time.  A value is a record of its class k and its  *)
(* payload: the number n, the string s or the elements l (each payload    *)
(* field has one type in every value).  A dict over the wire names maps a *)
(* name without entry to NoKey, which is not a value.                      *)

Value(k, n, str, l) == [k |-> k, n |-> n, s |-> str, l |-> l]

NoneV == Value("None", 0, "", <<>>)
NoKey == Value("<no key>", 0, "", <<>>)
NoValue == Value("<nothing>", 0, "", <<>>)
IntV(n) == Value("int", n, "", <<>>)
StrV(str) == Value("str", 0, str, <<>>)
ListV(seq) == Value("list", 0, "", seq)
TupleV(seq) == Value("tuple", 0, "", seq)
\* an instance of the generated primitive alias cls(int)
AliasV(cls, n) == Value(cls, n, "", <<>>)
\* the member with value str of the generated enum cls
EnumV(cls, str) == Value(cls, 0, str, <<>>)
\* an instance of a generated dataclass, or the arguments of a call: the
\* values of the fields or parameters, in the order of their declaration
\* in the IDL
DataV(seq) == Value("dataclass", 0, "", seq)
\* a raised exception
Raised(exc, what) == Value(exc, 0, what, <<>>)

Exceptions == {"KeyError", "TypeError", "ValueError", "AttributeError",
               "IndexError", "AssertionError"}
IsRaised(x) == x.k \in Exceptions

WireKeys == Range(FieldNames)
EmptyDict == [key \in WireKeys |-> NoKey]

\* dict_[key] = value
DictSet(d, key, value) == [d EXCEPT ![key] = value]

\* the first exception among the values of a sequence, if any
FirstRaised(seq) ==
    LET bad == {i \in 1..Len(seq) : IsRaised(seq[i])}
    IN  seq[CHOOSE i \in bad : \A j \in bad : i <= j]

AnyRaised(seq) == \E i \in 1..Len(seq) : IsRaised(seq[i])

----------------------------------------------------------------------------
(* The classes that references of the run-time model resolve to: the      *)
(* primitive alias NodeId(int) and the enum Mode, as generated by          *)
(* generate_primitive_code and generate_enum_code.                         *)

EnumValues == {"on", "off"}

\* the class a rendered name denotes in the module: its last token
ClassOf(name) == name[Len(name)]

\* int(x)
py_int(x) ==
    IF x.k \in {"int", "NodeId"} THEN IntV(x.n) ELSE Raised("TypeError", "int")

\* str(x): of None it is the string 'None'
py_str(x) ==
    IF x.k = "str" THEN x
    ELSE IF x.k = "None" THEN StrV("None")
    ELSE Raised("TypeError", "str")

\* the constructor call "<cons>(<val>)" that get_constructor emits; the
\* value itself for 'any'
CallConstructor(cons, x) ==
    IF cons = <<>> THEN x
    ELSE IF cons = <<"int">> THEN py_int(x)
    ELSE IF cons = <<"str">> THEN py_str(x)
    ELSE Raised("TypeError", "unsupported")

\* <instance>.to_json(): "return self" of a primitive alias, "return
\* self.value" of an enum; None has no such attribute
to_json(x) ==
    IF x.k = "NodeId" THEN x
    ELSE IF x.k = "Mode" THEN StrV(x.s)
    ELSE Raised("AttributeError", "to_json")

\* <Class>.from_json(json): "return cls(json)"
from_json(cls, x) ==
    IF cls = "NodeId"
    THEN IF x.k \in {"int", "NodeId"} THEN AliasV("NodeId", x.n)
         ELSE Raised("TypeError", "int")
    ELSE IF cls = "Mode"
    THEN IF x.k = "str" /\ x.s \in EnumValues THEN EnumV("Mode", x.s)
         ELSE Raised("ValueError", "Mode")
    ELSE Raised("TypeError", "unsupported")

\* a list comprehension [f(i) for i in x]
Comprehension(f(_), x) ==
    IF x.k # "list" THEN Raised("TypeError", "not iterable")
    ELSE LET out == [i \in 1..Len(x.l) |-> f(x.l[i])]
         IN  IF AnyRaised(out) THEN FirstRaised(out) ELSE ListV(out)

----------------------------------------------------------------------------
(* The classes emitted by generate_enum_code and generate_primitive_code  *)

\* the class statement "class <id>(enum.Enum):" with one assignment per
\* member: enum raises TypeError when a name is assigned a second time, and
\* then there is no class
EnumClassDefined(cls_code) ==
    \A i, j \in 1..Len(cls_code.members) :
        i # j => cls_code.members[i].const # cls_code.members[j].const

\* <enum class>.from_json(json): "return cls(json)" looks the member up by
\* its value and raises ValueError when no member has it
EnumFromJson(cls_code, x) ==
    LET ms == cls_code.members
    IN  IF cls_code.from_json = "cls(json)"
        THEN IF x.k = "str" /\ \E i \in 1..Len(ms) : ms[i].value = x.s
             THEN EnumV(cls_code.id, x.s)
             ELSE Raised("ValueError", cls_code.id)
        ELSE IF x.k = "str" /\ \E i \in 1..Len(ms) : ms[i].const = x.s
             THEN EnumV(cls_code.id,
                        ms[CHOOSE i \in 1..Len(ms) : ms[i].const = x.s].value)
             ELSE Raised("KeyError", cls_code.id)

\* <member>.to_json(): "return self.value"
EnumToJson(cls_code, member) == StrV(member.s)

\* <alias instance>.to_json(): "return self"
AliasToJson(cls_code, inst) == inst

\* <alias class>.from_json(json): "return cls(json)", the constructor of
\* the superclass int or list on the raw input
AliasFromJson(cls_code, x) ==
    IF cls_code.superclass = <<"int">>
    THEN IF x.k = "int" THEN Value(cls_code.id, x.n, "", <<>>)
         ELSE Raised("TypeError", "int")
    ELSE IF cls_code.superclass = <<"list">>
    THEN IF x.k = "list" THEN Value(cls_code.id, 0, "", x.l)
         ELSE Raised("TypeError", "list")
    ELSE Raised("TypeError", "unsupported")

----------------------------------------------------------------------------
(* The semantics of the emitted statements and expressions *)

\* the right-hand side emitted by generate_to_json, on the value x of the
\* attribute or local variable
ToJsonValue(form, x) ==
    CASE form = "list_ref"  -> Comprehension(to_json, x)
      [] form = "list_prim" -> Comprehension(LAMBDA i : i, x)
      [] form = "ref"       -> to_json(x)
      [] form = "prim"      -> x

\* the statement emitted by generate_to_json, on the dict d and the
\* variables env: the dict afterwards and the exception raised, if any
ExecAssign(st, d, env) ==
    LET x == env[st.src]
    IN  IF st.guarded /\ x = NoneV THEN [dict |-> d, exc |-> NoneV]
        ELSE LET y == ToJsonValue(st.form, x)
             IN  IF IsRaised(y) THEN [dict |-> d, exc |-> y]
                 ELSE [dict |-> DictSet(d, st.key, y), exc |-> NoneV]

\* the statements of a sequence of assignments, in order
RECURSIVE ExecAssigns(_, _, _)
ExecAssigns(sts, d, env) ==
    IF sts = <<>> THEN [dict |-> d, exc |-> NoneV]
    ELSE LET r == ExecAssign(Head(sts), d, env)
         IN  IF r.exc # NoneV THEN r ELSE ExecAssigns(Tail(sts), r.dict, env)

\* the expression emitted by generate_from_json, on the dict json
EvalFromJson(e, json) ==
    LET cls == ClassOf(e.cons)
        item == json[e.key]
        expr ==
            IF item = NoKey THEN Raised("KeyError", e.key)
            ELSE CASE e.form = "list_ref"  -> Comprehension(LAMBDA i : from_json(cls, i), item)
                   [] e.form = "list_prim" -> Comprehension(LAMBDA i : CallConstructor(e.cons, i), item)
                   [] e.form = "ref"       -> from_json(cls, item)
                   [] e.form = "prim"      -> CallConstructor(e.cons, item)
    IN  IF e.guarded
        THEN IF item # NoKey /\ item # NoneV THEN expr ELSE NoneV
        ELSE expr

\* the variables that the properties ps and their values bind: the
\* attributes of an instance, the parameters of a call
Env(ps, data) == [n \in {py_name(ps[i]) : i \in 1..Len(ps)} |->
                    data.l[CHOOSE i \in 1..Len(ps) : py_name(ps[i]) = n]]

\* the call "cls(<py_name>=<expr>, ...)" of an emitted from_json, which
\* makes the instance of the dataclass with fields ps
EvalConstructorCall(kwargs, json, ps) ==
    LET vals == [i \in 1..Len(kwargs) |-> EvalFromJson(kwargs[i].expr, json)]
    IN  IF AnyRaised(vals) THEN FirstRaised(vals)
        ELSE DataV([i \in 1..Len(ps) |->
                       vals[CHOOSE j \in 1..Len(kwargs) : kwargs[j].py_name = py_name(ps[i])]])

\* the to_json method emitted by generate_class_code, on an instance
ExecToJson(cls_code, ps, inst) ==
    ExecAssigns(cls_code.to_json, EmptyDict, Env(ps, inst))

\* the from_json classmethod emitted for a record class or an event class
ExecFromJson(cls_code, json, ps) == EvalConstructorCall(cls_code.from_json, json, ps)

\* the request descriptor {'method': ..., ['params': params]}
CmdDict(method, with_params, params) ==
    [method |-> method, has_params |-> with_params,
     params |-> IF with_params THEN params ELSE EmptyDict]

\* to_json() has not been called
NotEncoded == [dict |-> EmptyDict, exc |-> NoValue]

\* the frame of a generator created from an emitted command function
NewFrame == [ip |-> 0, params |-> EmptyDict, cmd_dict |-> NoValue, json |-> NoValue]

\* the return statement of an emitted command function, on the dict json
EvalReturn(st, json) ==
    LET vals == [i \in 1..Len(st.exprs) |-> EvalFromJson(st.exprs[i], json)]
    IN  IF AnyRaised(vals) THEN FirstRaised(vals)
        ELSE IF st.tuple THEN TupleV(vals) ELSE vals[1]

\* The generator runs the statements of body from statement ip on, with
\* the frame fr and the arguments env, up to the next yield, the return,
\* the end of the body or an exception.
RECURSIVE RunFrom(_, _, _, _)
RunFrom(body, ip, fr, env) ==
    IF ip > Len(body)
    THEN [status |-> "return", value |-> NoneV, frame |-> [fr EXCEPT !.ip = ip]]
    ELSE LET st == body[ip]
         IN  CASE st.op = "new_dict" ->
                    RunFrom(body, ip + 1, [fr EXCEPT !.params = EmptyDict], env)
               [] st.op = "assign" ->
                    LET r == ExecAssign(st, fr.params, env)
                    IN  IF r.exc # NoneV
                        THEN [status |-> "raise", value |-> r.exc,
                              frame |-> [fr EXCEPT !.ip = ip]]
                        ELSE RunFrom(body, ip + 1, [fr EXCEPT !.params = r.dict], env)
               [] st.op = "cmd_dict" ->
                    RunFrom(body, ip + 1,
                            [fr EXCEPT !.cmd_dict =
                                CmdDict(st.method, st.with_params, fr.params)],
                            env)
               [] st.op = "yield" ->
                    [status |-> "yield", value |-> fr.cmd_dict,
                     frame |-> [fr EXCEPT !.ip = ip]]
               [] st.op = "return" ->
                    LET v == EvalReturn(st, fr.json)
                    IN  [status |-> IF IsRaised(v) THEN "raise" ELSE "return",
                         value |-> v, frame |-> [fr EXCEPT !.ip = ip]]

----------------------------------------------------------------------------
(* The domains of the model: one object type, at most one array type, one *)
(* command and one event, with at most MaxProps properties, parameters,   *)
(* returns and array types between them.                                   *)

\* the domains that are compiled
CompiledDomains == {"DOM", "Input"}

\* the declared `dependencies` of a domain
DeclaredDependencies == {<<>>, <<"Runtime">>}

\* the leaf shapes of a property: a primitive, a list of primitives, a
\* reference (local, or qualified with a domain), a list of references
LeafShapes ==
    {[type |-> "integer", ref |-> NoRef, items |-> NoItems],
     [type |-> "array", ref |-> NoRef, items |-> CdpItems("string", NoRef)],
     [type |-> "", ref |-> <<"NodeId">>, items |-> NoItems],
     [type |-> "", ref |-> <<"DOM", DOT, "NodeId">>, items |-> NoItems],
     [type |-> "", ref |-> <<"Runtime", DOT, "RemoteObjectId">>, items |-> NoItems],
     [type |-> "array", ref |-> NoRef, items |-> CdpItems("", <<"DOM", DOT, "NodeId">>)],
     [type |-> "array", ref |-> NoRef, items |-> CdpItems("", <<"Input", DOT, "TouchPoint">>)]}

PropKinds == LeafShapes \X BOOLEAN

\* the lists of n properties of domain dom, named by position
PropLists(n, dom) ==
    {[i \in 1..n |-> CdpProperty(FieldNames[i], k[i][1].type, k[i][1].ref,
                                  k[i][1].items, k[i][2], dom)] :
        k \in [1..n -> PropKinds]}

\* the items of the array type of the domain
ItemsChoices ==
    {CdpItems("integer", NoRef),
     CdpItems("", <<"NodeId">>),
     CdpItems("", <<"DOM", DOT, "NodeId">>),
     CdpItems("", <<"Runtime", DOT, "RemoteObjectId">>)}

\* the wire values of the enums of the model; two of them differ and
\* have the same constant name
EnumWireValues == {"on", "off", "fooBar", "foo_bar"}

\* the value lists of n values of an enum
EnumLists(n) == [1..n -> EnumWireValues]

NotGenerated == [kind |-> "none"]
NoBinding == [kind |-> "none"]
Idle == "idle"

RunVarsIdle ==
    /\ binding = NoBinding
    /\ code = NoBinding
    /\ args = NoValue
    /\ pc = Idle
    /\ frame = NewFrame
    /\ yielded = <<>>
    /\ sent = <<>>
    /\ encoded = NotEncoded
    /\ input = NoValue
    /\ result = NoValue

runVars == <<binding, code, args, pc, frame, yielded, sent, encoded, input, result>>

\* no pipeline runs; current_version has the value v
GenVarsIdle(v) ==
    /\ mode = Idle
    /\ docs = <<>>
    /\ domains = <<>>
    /\ current_version = v
    /\ files = <<>>
    /\ step = Idle
    /\ log = <<>>
    /\ raised = NoneV

Init ==
    /\ \E dom \in CompiledDomains, deps \in DeclaredDependencies,
          nt \in 0..MaxProps, np \in 0..MaxProps, nr \in 0..MaxProps,
          ne \in 0..MaxProps, ni \in 0..1, nv \in 0..MaxProps,
          dc \in 0..1, de \in 0..1 :
          /\ nt + np + nr + ne + ni + nv + dc + de <= MaxProps
          /\ \E tp \in PropLists(nt, dom), cp \in PropLists(np, dom),
                cr \in PropLists(nr, dom), ep \in PropLists(ne, dom),
                its \in (IF ni = 0 THEN {<<>>}
                         ELSE {<<CdpType("NodeList", "array", it, <<>>, <<>>)>> :
                                  it \in ItemsChoices}),
                ens \in (IF nv = 0 THEN {<<>>}
                         ELSE {<<CdpType("Mode", "string", NoItems, vs, <<>>)>> :
                                  vs \in EnumLists(nv)}) :
                domain = CdpDomain(dom, deps,
                    <<CdpType("Node", "object", NoItems, <<>>, tp)>> \o its \o ens,
                    <<[CdpCommand("getNode", cp, cr, dom)
                         EXCEPT !.deprecated = (dc = 1)]>>,
                    <<[CdpEvent("nodeChanged", ep, dom)
                         EXCEPT !.deprecated = (de = 1)]>>)
    /\ module = NotGenerated
    /\ RunVarsIdle
    /\ GenVarsIdle(<<"1", DOT, "3">>)

\* domain.generate_code(), as selfgen and cdpgen call it for each domain
GenerateCode ==
    /\ module = NotGenerated
    /\ module' = CdpDomain_generate_code(domain)
    /\ domain' = CdpDomain_after_generate_code(domain)
    /\ UNCHANGED <<runVars, genVars>>

Next == GenerateCode

Spec == Init /\ [][Next]_vars

----------------------------------------------------------------------------
(* Properties of the generated declarations *)

Generated == module # NotGenerated

\* the position of the property with Python name n in the list ps
PosOf(n, ps) == CHOOSE i \in 1..Len(ps) : py_name(ps[i]) = n

\* decls declares the properties ps, each once, the non-optional ones
\* before the optional ones, and each group in the order of ps
RequiredFirstStable(decls, ps) ==
    /\ Len(decls) = Len(ps)
    /\ \A i \in 1..Len(ps) : \E j \in 1..Len(decls) : decls[j].py_name = py_name(ps[i])
    /\ \A i, j \in 1..Len(decls) :
          i < j =>
            LET pi == ps[PosOf(decls[i].py_name, ps)]
                pj == ps[PosOf(decls[j].py_name, ps)]
            IN  /\ decls[i].py_name # decls[j].py_name
                /\ ~(pi.optional /\ ~pj.optional)
                /\ (pi.optional = pj.optional =>
                        PosOf(decls[i].py_name, ps) < PosOf(decls[j].py_name, ps))

\* an optional property stands before a non-optional one in ps
OptionalBeforeRequired(ps) ==
    \E i, j \in 1..Len(ps) : i < j /\ ps[i].optional /\ ~ps[j].optional

\* C6: the field declarations of every generated record class are a
\* permutation of the IDL properties of the type with every non-optional
\* field before every optional one, each of the two groups in IDL order.
C6_RecordFieldOrder ==
    Generated =>
        \A i \in 1..Len(domain.types) :
            module.types[i].kind = "class" =>
                RequiredFirstStable(module.types[i].decls, domain.types[i].properties)

\* a record class was generated from properties that the sort had to move
C6_Witness ==
    /\ Generated
    /\ module.types[1].kind = "class"
    /\ OptionalBeforeRequired(domain.types[1].properties)

\* C7: the call signature of every generated command lists every declared
\* parameter once, the non-optional ones before the optional ones, each
\* group in IDL order.
C7_SignatureOrder ==
    Generated =>
        \A i \in 1..Len(domain.commands) :
            RequiredFirstStable(module.commands[i].signature,
                                domain.commands[i].parameters)

\* a command was generated from parameters that the sort had to move
C7_Witness ==
    /\ Generated
    /\ OptionalBeforeRequired(domain.commands[1].parameters)

\* C8 as stated: the field declarations of every generated event class
\* have the non-optional fields before the optional ones (stably), and
\* every optional field is declared with the default None.
C8_EventRecordRules ==
    Generated =>
        \A i \in 1..Len(domain.events) :
            LET decls == module.events[i].decls
                ps == domain.events[i].parameters
            IN  /\ RequiredFirstStable(decls, ps)
                /\ \A j \in 1..Len(decls) :
                      ps[PosOf(decls[j].py_name, ps)].optional => decls[j].default_none

\* C8, amended: the field declarations of every generated event class are
\* the parameters of the event in IDL order, each once, and none of them
\* has a default; so no field with a default precedes one without.
C8_EventDeclsInIdlOrder ==
    Generated =>
        \A i \in 1..Len(domain.events) :
            LET decls == module.events[i].decls
                ps == domain.events[i].parameters
            IN  /\ Len(decls) = Len(ps)
                /\ \A j \in 1..Len(ps) :
                      /\ decls[j].py_name = py_name(ps[j])
                      /\ ~decls[j].default_none
                /\ \A j, k \in 1..Len(decls) :
                      j < k => ~(decls[j].default_none /\ ~decls[k].default_none)

\* an event class was generated from parameters with an optional one
\* before a non-optional one
C8_Witness ==
    /\ Generated
    /\ OptionalBeforeRequired(domain.events[1].parameters)

----------------------------------------------------------------------------
(* Properties of the imports and of the rendered references *)

\* the properties, parameters and returns of a domain
AllProps(d) ==
    UNION {Range(d.types[i].properties) : i \in 1..Len(d.types)}
    \cup UNION {Range(d.commands[i].parameters) \cup Range(d.commands[i].returns) :
                  i \in 1..Len(d.commands)}
    \cup UNION {Range(d.events[i].parameters) : i \in 1..Len(d.events)}

\* every reference and repeated-items reference of a domain
AllRefs(d) ==
    ({p.ref : p \in AllProps(d)}
     \cup {p.items[1].ref : p \in {q \in AllProps(d) : q.items # NoItems}}
     \cup {d.types[i].items[1].ref : i \in {j \in 1..Len(d.types) : d.types[j].items # NoItems}})
    \ {NoRef}

QualifiedWith(ref, q) == Len(ref) = 3 /\ ref[1] = q /\ ref[2] = DOT

\* the modules of the other domains that a reference of d is qualified with
ReferencedModules(d) ==
    {snake_case(q) : q \in {x \in DomainNames \ {d.domain} :
                                \E r \in AllRefs(d) : QualifiedWith(r, x)}}

\* C9: the imports of a generated module are exactly the modules of the
\* other domains that its references are qualified with, each once and
\* never the module itself, whatever dependencies the domain declares.
C9_ImportSet ==
    Generated =>
        /\ Range(module.imports) = ReferencedModules(domain)
        /\ \A i, j \in 1..Len(module.imports) :
              i # j => module.imports[i] # module.imports[j]
        /\ snake_case(domain.domain) \notin Range(module.imports)

\* a module was generated for a domain that refers to itself and to
\* another domain by qualified references and that declares a dependency
\* it has no reference to
C9_Witness ==
    /\ Generated
    /\ \E r \in AllRefs(domain) : QualifiedWith(r, domain.domain)
    /\ \E r \in AllRefs(domain) : \E q \in DomainNames \ {domain.domain} : QualifiedWith(r, q)
    /\ domain.dependencies = <<"Runtime">>
    /\ "runtime" \notin Range(module.imports)

\* the name a reference resolves to inside domain dom
Resolved(ref, dom) ==
    IF Len(ref) = 3 /\ ref[2] = DOT
    THEN IF ref[1] = dom THEN <<ref[3]>> ELSE <<snake_case(ref[1]), DOT, ref[3]>>
    ELSE ref

\* the reference of a property (its own or that of its items)
RefOf(p) == IF p.items # NoItems THEN p.items[1].ref ELSE p.ref

\* a rendered name refers to no module but the imported ones
NamesImported(name, m) ==
    (Len(name) = 3 /\ name[2] = DOT /\ name[1] # "typing") => name[1] \in Range(m.imports)

\* name is what the reference of p resolves to, if p has a reference
RendersResolved(name, p, m) ==
    RefOf(p) # NoRef =>
        /\ name = Resolved(RefOf(p), p.domain)
        /\ NamesImported(name, m)

\* C10: in every position where the generator renders a reference (record
\* field annotation, decode expression, command parameter signature,
\* command return annotation, element type of a primitive alias), the
\* rendered name is the resolved reference: qualified with the module of
\* the other domain, or bare when the qualifier is the domain itself; so
\* it names no module that the import set excludes.
C10_ResolvedEverywhere ==
    Generated =>
        /\ \A i \in 1..Len(domain.types) :
              LET t == domain.types[i]
                  c == module.types[i]
              IN  /\ c.kind = "class" =>
                        \A j \in 1..Len(c.decls) :
                            LET p == t.properties[PosOf(c.decls[j].py_name, t.properties)]
                            IN  /\ RendersResolved(c.decls[j].annotation.name, p, module)
                                /\ RendersResolved(c.from_json[j].expr.cons, p, module)
                  /\ (c.kind = "primitive" /\ t.items # NoItems /\ t.items[1].ref # NoRef) =>
                        /\ c.py_type.name = Resolved(t.items[1].ref, domain.domain)
                        /\ NamesImported(c.py_type.name, module)
        /\ \A i \in 1..Len(domain.commands) :
              LET cmd == domain.commands[i]
                  c == module.commands[i]
              IN  /\ \A j \in 1..Len(c.signature) :
                        LET p == cmd.parameters[PosOf(c.signature[j].py_name, cmd.parameters)]
                        IN  RendersResolved(c.signature[j].annotation.name, p, module)
                  /\ \A j \in 1..Len(cmd.returns) :
                        RendersResolved(c.ret_type.types[j].name, cmd.returns[j], module)

----------------------------------------------------------------------------
(* The generated bindings at run time.  The declarations are of domain    *)
(* DOM; their references are to the enum Mode and to the primitive alias   *)
(* NodeId of the domain.                                                   *)

RunLeafShapes ==
    {[type |-> "integer", ref |-> NoRef, items |-> NoItems],
     [type |-> "array", ref |-> NoRef, items |-> CdpItems("string", NoRef)],
     [type |-> "", ref |-> <<"Mode">>, items |-> NoItems],
     [type |-> "array", ref |-> NoRef, items |-> CdpItems("", <<"NodeId">>)]}

RunPropLists(n) ==
    {[i \in 1..n |-> CdpProperty(FieldNames[i], k[i][1].type, k[i][1].ref,
                                 k[i][1].items, k[i][2], "DOM")] :
        k \in [1..n -> RunLeafShapes \X BOOLEAN]}

\* the values a caller may legally give to a parameter or field
LegalValues(p) ==
    (CASE shape_form(p) = "prim"      -> {IntV(0), IntV(7)}
       [] shape_form(p) = "list_prim" -> {ListV(<<>>), ListV(<<StrV("a")>>)}
       [] shape_form(p) = "ref"       -> {EnumV("Mode", "on"), EnumV("Mode", "off")}
       [] shape_form(p) = "list_ref"  -> {ListV(<<>>), ListV(<<AliasV("NodeId", 3)>>)})
    \cup (IF p.optional THEN {NoneV} ELSE {})

\* what the transport may deliver under the wire name of a return or
\* field: a well-formed value, null, or nothing
WireValues(p) ==
    (CASE shape_form(p) = "prim"      -> {IntV(0), IntV(7)}
       [] shape_form(p) = "list_prim" -> {ListV(<<>>), ListV(<<StrV("a")>>)}
       [] shape_form(p) = "ref"       -> {StrV("on")}
       [] shape_form(p) = "list_ref"  -> {ListV(<<>>), ListV(<<IntV(3)>>)})
    \cup {NoneV, NoKey}

\* the legal bindings of Python names to values for the properties ps
LegalArgs(ps) ==
    {DataV(f) : f \in {g \in [1..Len(ps) -> UNION {LegalValues(ps[i]) : i \in 1..Len(ps)}] :
                          \A i \in 1..Len(ps) : g[i] \in LegalValues(ps[i])}}

\* the mappings the transport may deliver for the properties ps
WireDicts(ps) ==
    {d \in [WireKeys -> UNION {WireValues(ps[i]) : i \in 1..Len(ps)} \cup {NoKey}] :
        /\ \A i \in 1..Len(ps) : d[ps[i].name] \in WireValues(ps[i])
        /\ \A key \in WireKeys \ {ps[i].name : i \in 1..Len(ps)} : d[key] = NoKey}

\* the primitive aliases of the run-time model: of a bare primitive, of a
\* list of primitives, of a list of references to an enum and to an alias
AliasTypes ==
    {CdpType("NodeId", "integer", NoItems, <<>>, <<>>),
     CdpType("Names", "array", CdpItems("string", NoRef), <<>>, <<>>),
     CdpType("Modes", "array", CdpItems("", <<"Mode">>), <<>>, <<>>),
     CdpType("NodeIds", "array", CdpItems("", <<"NodeId">>), <<>>, <<>>)}

\* the legal instances of a primitive alias
AliasInstances(t) ==
    IF ~truthy(t.items) THEN {Value(t.id, 0, "", <<>>), Value(t.id, 7, "", <<>>)}
    ELSE {Value(t.id, 0, "", l) :
            l \in IF ~truthy(t.items[1].ref) THEN {<<>>, <<StrV("a")>>}
                  ELSE IF t.items[1].ref = <<"Mode">>
                       THEN {<<>>, <<EnumV("Mode", "on")>>, <<EnumV("Mode", "off")>>}
                       ELSE {<<>>, <<AliasV("NodeId", 3)>>}}

\* the raw inputs that the transport may deliver for a primitive alias
AliasRawInputs(t) ==
    IF ~truthy(t.items) THEN {IntV(0), IntV(7)}
    ELSE {ListV(l) :
            l \in IF ~truthy(t.items[1].ref) THEN {<<>>, <<StrV("a")>>}
                  ELSE IF t.items[1].ref = <<"Mode">>
                       THEN {<<>>, <<StrV("on")>>}
                       ELSE {<<>>, <<IntV(3)>>}}

\* the strings that the transport may deliver for an enum: wire values,
\* and the name of a constant
EnumRawInputs == {StrV(v) : v \in EnumWireValues \cup {"ON"}}

InitRun ==
    /\ domain = CdpDomain("DOM", <<>>, <<>>, <<>>, <<>>)
    /\ module = NotGenerated
    /\ \/ \E np \in 0..MaxProps, nr \in 0..MaxProps :
            /\ np + nr <= MaxProps
            /\ \E cp \in RunPropLists(np), cr \in RunPropLists(nr) :
                  /\ binding = [kind |-> "command",
                                decl |-> CdpCommand("getNode", cp, cr, "DOM")]
                  /\ code = CdpCommand_generate_code(binding.decl)
                  /\ pc = "uncalled"
       \/ \E nt \in 1..MaxProps : \E tp \in RunPropLists(nt) :
            /\ binding = [kind |-> "type",
                          decl |-> CdpType("Node", "object", NoItems, <<>>, tp)]
            /\ code = CdpType_generate_code(binding.decl)
            /\ pc = "class"
       \/ \E ne \in 0..MaxProps : \E ep \in RunPropLists(ne) :
            /\ binding = [kind |-> "event",
                          decl |-> CdpEvent("nodeChanged", ep, "DOM")]
            /\ code = CdpEvent_generate_code(binding.decl)
            /\ pc = "class"
       \/ \E nv \in 1..MaxProps : \E vs \in EnumLists(nv) :
            /\ binding = [kind |-> "enum",
                          decl |-> CdpType("Mode", "string", NoItems, vs, <<>>)]
            /\ code = CdpType_generate_code(binding.decl)
            /\ pc = "class"
       \/ \E t \in AliasTypes :
            /\ binding = [kind |-> "alias", decl |-> t]
            /\ code = CdpType_generate_code(binding.decl)
            /\ pc = "class"
    /\ args = NoValue
    /\ frame = NewFrame
    /\ yielded = <<>>
    /\ sent = <<>>
    /\ encoded = NotEncoded
    /\ input = NoValue
    /\ result = NoValue
    /\ GenVarsIdle(<<>>)

\* the mappings the transport may send as the response to a command with
\* returns rs: besides the entries of the returns, possibly an entry that
\* the command does not declare
Responses(rs) ==
    WireDicts(rs) \cup {DictSet(d, FieldNames[Len(FieldNames)], IntV(7)) : d \in WireDicts(rs)}

\* The generator has run up to `out`: a yield hands the request descriptor
\* to the caller, a return or an exception ends the generator.
Advance(out) ==
    /\ frame' = out.frame
    /\ pc' = CASE out.status = "yield"  -> "suspended"
               [] out.status = "return" -> "returned"
               [] out.status = "raise"  -> "raised"
    /\ yielded' = IF out.status = "yield" THEN Append(yielded, out.value) ELSE yielded
    /\ result' = IF out.status = "yield" THEN result ELSE out.value

\* get_node(<args>): calling the emitted function creates the generator
\* and runs none of its body
Call ==
    /\ binding.kind = "command"
    /\ pc = "uncalled"
    /\ \E a \in LegalArgs(binding.decl.parameters) : args' = a
    /\ pc' = "created"
    /\ UNCHANGED <<genVars, domain, module, binding, code, frame, yielded, sent,
                   encoded, input, result>>

\* next(gen): the body runs from its first statement
Start ==
    /\ pc = "created"
    /\ Advance(RunFrom(code.body, 1, frame, Env(binding.decl.parameters, args)))
    /\ UNCHANGED <<genVars, domain, module, binding, code, args, sent, encoded, input>>

\* gen.send(response): "json = yield cmd_dict" receives the response and
\* the body runs on
Send ==
    /\ pc = "suspended"
    /\ \E response \in Responses(binding.decl.returns) :
          /\ sent' = Append(sent, response)
          /\ Advance(RunFrom(code.body, frame.ip + 1,
                             [frame EXCEPT !.json = response],
                             Env(binding.decl.parameters, args)))
    /\ UNCHANGED <<genVars, domain, module, binding, code, args, encoded, input>>

\* Node(<fields>): the caller makes an instance of the generated dataclass
Construct ==
    /\ binding.kind = "type"
    /\ args = NoValue
    /\ input = NoValue
    /\ \E inst \in LegalArgs(binding.decl.properties) : args' = inst
    /\ UNCHANGED <<genVars, domain, module, binding, code, pc, frame, yielded, sent,
                   encoded, input, result>>

\* <instance>.to_json()
ToJson ==
    /\ binding.kind = "type"
    /\ args # NoValue
    /\ encoded = NotEncoded
    /\ encoded' = ExecToJson(code, binding.decl.properties, args)
    /\ UNCHANGED <<genVars, domain, module, binding, code, args, pc, frame, yielded,
                   sent, input, result>>

\* Node.from_json(<instance>.to_json())
FromJsonEncoded ==
    /\ binding.kind = "type"
    /\ encoded # NotEncoded
    /\ encoded.exc = NoneV
    /\ input = NoValue
    /\ input' = encoded.dict
    /\ result' = ExecFromJson(code, encoded.dict, binding.decl.properties)
    /\ UNCHANGED <<genVars, domain, module, binding, code, args, pc, frame, yielded,
                   sent, encoded>>

\* Node.from_json(json) / NodeChanged.from_json(json) on a delivered mapping
FromJsonWire ==
    /\ binding.kind \in {"type", "event"}
    /\ args = NoValue
    /\ input = NoValue
    /\ LET ps == IF binding.kind = "type" THEN binding.decl.properties
                 ELSE binding.decl.parameters
       IN  \E json \in WireDicts(ps) :
              /\ input' = json
              /\ result' = ExecFromJson(code, json, ps)
    /\ UNCHANGED <<genVars, domain, module, binding, code, args, pc, frame, yielded,
                   sent, encoded>>

\* Mode.from_json(json) on a delivered string; the module has the class
\* only if its class statement did not raise
EnumDecode ==
    /\ binding.kind = "enum"
    /\ EnumClassDefined(code)
    /\ input = NoValue
    /\ \E json \in EnumRawInputs :
          /\ input' = json
          /\ result' = EnumFromJson(code, json)
    /\ UNCHANGED <<genVars, domain, module, binding, code, args, pc, frame,
                   yielded, sent, encoded>>

\* <member>.to_json() on the member that from_json returned
EnumEncode ==
    /\ binding.kind = "enum"
    /\ input # NoValue
    /\ ~IsRaised(result)
    /\ encoded = NotEncoded
    /\ encoded' = EnumToJson(code, result)
    /\ UNCHANGED <<genVars, domain, module, binding, code, args, pc, frame,
                   yielded, sent, input, result>>

\* NodeId(7) / Names([...]): the caller makes an instance of the alias
AliasConstruct ==
    /\ binding.kind = "alias"
    /\ args = NoValue
    /\ input = NoValue
    /\ \E inst \in AliasInstances(binding.decl) : args' = inst
    /\ UNCHANGED <<genVars, domain, module, binding, code, pc, frame, yielded,
                   sent, encoded, input, result>>

\* <alias instance>.to_json()
AliasEncode ==
    /\ binding.kind = "alias"
    /\ args # NoValue
    /\ encoded = NotEncoded
    /\ encoded' = AliasToJson(code, args)
    /\ UNCHANGED <<genVars, domain, module, binding, code, args, pc, frame,
                   yielded, sent, input, result>>

\* <alias class>.from_json(json) on a delivered raw value
AliasDecode ==
    /\ binding.kind = "alias"
    /\ args = NoValue
    /\ input = NoValue
    /\ \E json \in AliasRawInputs(binding.decl) :
          /\ input' = json
          /\ result' = AliasFromJson(code, json)
    /\ UNCHANGED <<genVars, domain, module, binding, code, args, pc, frame,
                   yielded, sent, encoded>>

NextRun ==
    \/ Call \/ Start \/ Send \/ Construct \/ ToJson \/ FromJsonEncoded \/ FromJsonWire
    \/ EnumDecode \/ EnumEncode \/ AliasConstruct \/ AliasEncode \/ AliasDecode

SpecRun == InitRun /\ [][NextRun]_vars

----------------------------------------------------------------------------
(* Properties of the generated bindings at run time *)

IsCommand == binding.kind = "command"

\* the value that the wire value w of property p decodes to
Decoded(p, w) ==
    IF p.optional /\ w \in {NoKey, NoneV} THEN NoneV
    ELSE CASE shape_form(p) = "prim"      -> w
           [] shape_form(p) = "list_prim" -> w
           [] shape_form(p) = "ref"       -> EnumV("Mode", w.s)
           [] shape_form(p) = "list_ref"  ->
                ListV([i \in 1..Len(w.l) |-> AliasV("NodeId", w.l[i].n)])

\* the value that the value x of property p encodes to
WireOf(p, x) ==
    CASE shape_form(p) = "prim"      -> x
      [] shape_form(p) = "list_prim" -> x
      [] shape_form(p) = "ref"       -> StrV(x.s)
      [] shape_form(p) = "list_ref"  -> x

\* the mapping json has no usable entry for a non-optional property of ps
LacksRequired(ps, json) ==
    \E i \in 1..Len(ps) : ~ps[i].optional /\ json[ps[i].name] \in {NoKey, NoneV}

\* C1: a generated command binding has one suspension point.  Started, it
\* yields its request descriptor and suspends; it ends only after it was
\* resumed, and resumed once it has ended (returned, or raised on a
\* response that lacks a non-optional return) having yielded once: it
\* yields, and so sends its request, no second time.
C1_SingleSuspension ==
    IsCommand =>
        /\ Len(yielded) <= 1
        /\ pc \in {"uncalled", "created"} => yielded = <<>> /\ sent = <<>>
        /\ pc = "suspended" => Len(yielded) = 1 /\ sent = <<>>
        /\ sent # <<>> => pc \in {"returned", "raised"}
        /\ pc \in {"returned", "raised"} => Len(yielded) = 1 /\ Len(sent) = 1
        /\ pc = "raised" => LacksRequired(binding.decl.returns, sent[1])

\* a command with a parameter and a return has been resumed and has returned
C1_Witness ==
    /\ IsCommand
    /\ pc = "returned"
    /\ Len(binding.decl.parameters) >= 1
    /\ Len(binding.decl.returns) >= 1

\* C2: the yielded request descriptor has the method <domain>.<command>
\* in wire names, and its params have, under the wire name of the
\* parameter, the encoded value of every parameter but the optional ones
\* whose value is None, which have no entry; it has no other entry.
C2_RequestDescriptor ==
    (IsCommand /\ yielded # <<>>) =>
        LET c == binding.decl
            d == yielded[1]
        IN  /\ d.method = <<c.domain, DOT, c.name>>
            /\ \A i \in 1..Len(c.parameters) :
                  LET p == c.parameters[i]
                      x == args.l[i]
                  IN  IF p.optional /\ x = NoneV
                      THEN d.params[p.name] = NoKey
                      ELSE d.params[p.name] = WireOf(p, x)
            /\ \A key \in WireKeys \ {c.parameters[i].name : i \in 1..Len(c.parameters)} :
                  d.params[key] = NoKey

\* a request was yielded for a call with an absent optional argument, a
\* present one, and a parameter whose Python name is not its wire name
C2_Witness ==
    /\ IsCommand
    /\ yielded # <<>>
    /\ \E i, j \in 1..Len(binding.decl.parameters) :
          /\ binding.decl.parameters[i].optional /\ args.l[i] = NoneV
          /\ args.l[j] # NoneV
          /\ py_name(binding.decl.parameters[j]) # binding.decl.parameters[j].name

\* C3: a command that has returned completed with None if it declares no
\* return, with the decoded return itself if it declares one, and with the
\* tuple of the decoded returns in declaration order otherwise.
C3_ReturnValue ==
    (IsCommand /\ pc = "returned") =>
        LET rs == binding.decl.returns
            json == sent[1]
            dec(i) == Decoded(rs[i], json[rs[i].name])
        IN  result = IF Len(rs) = 0 THEN NoneV
                     ELSE IF Len(rs) = 1 THEN dec(1)
                     ELSE TupleV([i \in 1..Len(rs) |-> dec(i)])

\* a command with two returns has returned a tuple of two different values
C3_Witness ==
    /\ IsCommand
    /\ pc = "returned"
    /\ Len(binding.decl.returns) = 2
    /\ result.k = "tuple"
    /\ result.l[1] # result.l[2]

\* from_json() was called on what to_json() of the instance returned
RoundTripped == binding.kind = "type" /\ args # NoValue /\ input # NoValue

\* C4: to_json() of a legal instance of a generated record class returns a
\* mapping, without an entry for any field that is None, from which
\* from_json() makes an instance equal to the first, in which the fields
\* that were None are None again.
C4_RoundTrip ==
    /\ (binding.kind = "type" /\ encoded # NotEncoded) =>
          /\ encoded.exc = NoneV
          /\ \A i \in 1..Len(binding.decl.properties) :
                args.l[i] = NoneV => encoded.dict[binding.decl.properties[i].name] = NoKey
    /\ RoundTripped =>
          /\ input = encoded.dict
          /\ result = args
          /\ \A i \in 1..Len(binding.decl.properties) :
                args.l[i] = NoneV => result.l[i] = NoneV

\* an instance with an absent optional field and a reference made the
\* round trip
C4_Witness ==
    /\ RoundTripped
    /\ \E i, j \in 1..Len(binding.decl.properties) :
          /\ args.l[i] = NoneV
          /\ args.l[j].k = "Mode"

\* the declarations and the mapping of a decode that has completed
DecodeDone ==
    IF IsCommand THEN pc \in {"returned", "raised"}
    ELSE binding.kind \in {"type", "event"} /\ args = NoValue /\ input # NoValue

DecodedProps ==
    CASE binding.kind = "command" -> binding.decl.returns
      [] binding.kind = "type"    -> binding.decl.properties
      [] binding.kind = "event"   -> binding.decl.parameters

DecodedFrom == IF IsCommand THEN sent[1] ELSE input

\* the decoded value of the i-th declaration in a completed decode
DecodedField(i) ==
    IF IsCommand /\ Len(binding.decl.returns) = 1 THEN result ELSE result.l[i]

\* C5: a decode (from_json of a record class or of an event class, the
\* returns of a command) of a mapping without entry for a non-optional
\* field fails, with KeyError when no non-optional field is null; a decode
\* of a mapping with a usable entry for every non-optional field succeeds,
\* and every optional field without entry is None in its result.
C5_MissingField ==
    DecodeDone =>
        LET ps == DecodedProps
            json == DecodedFrom
            missing == {i \in 1..Len(ps) : ~ps[i].optional /\ json[ps[i].name] = NoKey}
        IN  /\ missing # {} =>
                  /\ IsRaised(result)
                  /\ (\A i \in 1..Len(ps) : ~ps[i].optional => json[ps[i].name] # NoneV) =>
                        result \in {Raised("KeyError", ps[i].name) : i \in missing}
            /\ ~LacksRequired(ps, json) =>
                  /\ ~IsRaised(result)
                  /\ \A i \in 1..Len(ps) :
                        (ps[i].optional /\ json[ps[i].name] = NoKey) => DecodedField(i) = NoneV

\* a decode of a mapping without entry for a non-optional field and for an
\* optional field has failed with KeyError
C5_Witness ==
    /\ DecodeDone
    /\ result.k = "KeyError"
    /\ \E i \in 1..Len(DecodedProps) :
          DecodedProps[i].optional /\ DecodedFrom[DecodedProps[i].name] = NoKey

----------------------------------------------------------------------------
(* Properties of the generated enums and primitive aliases *)

IsEnum == binding.kind = "enum"
IsAlias == binding.kind = "alias"

\* C11: from_json of a generated enum class, given a string that is not a
\* declared value of the enum, raises ValueError; given a declared value
\* it returns the member with that value, and to_json of that member
\* returns the same string.
C11_EnumClosure ==
    (IsEnum /\ input # NoValue) =>
        IF input.s \in Range(binding.decl.enum)
        THEN /\ result = EnumV(binding.decl.id, input.s)
             /\ encoded # NotEncoded => encoded = input
        ELSE result = Raised("ValueError", binding.decl.id)

\* a declared value of an enum with two values was decoded and encoded
\* again
C11_Witness ==
    /\ IsEnum
    /\ Len(binding.decl.enum) = 2
    /\ input # NoValue
    /\ input.s \in Range(binding.decl.enum)
    /\ encoded # NotEncoded

\* C17: to_json of an instance of a generated primitive alias returns the
\* wrapped value as it is when the alias wraps a primitive or a list of
\* primitives, and a list of the to_json() of its elements when it wraps
\* a list of references; from_json wraps the raw input unchanged.
C17_AliasCodec ==
    IsAlias =>
        /\ encoded # NotEncoded =>
              IF truthy(binding.decl.items) /\ truthy(binding.decl.items[1].ref)
              THEN encoded.l = [i \in 1..Len(args.l) |-> to_json(args.l[i])]
              ELSE encoded = args
        /\ input # NoValue =>
              result = Value(binding.decl.id, input.n, input.s, input.l)

\* C18: no enum declaration is emitted in which two different wire values
\* of the enum have the same constant name (the compilation of such a
\* type fails instead).
C18_NoCollidingConstants ==
    Generated =>
        \A i \in 1..Len(module.types) :
            module.types[i].kind = "enum" =>
                \A j, k \in 1..Len(module.types[i].members) :
                    LET mj == module.types[i].members[j]
                        mk == module.types[i].members[k]
                    IN  mj.value # mk.value => mj.const # mk.const

----------------------------------------------------------------------------
(* fix_protocol_spec.  It changes the domain objects in place; an         *)
(* exception ends it and leaves the changes made before.  Its outcome is  *)
(* the list of domains afterwards and the exception raised, or NoneV.     *)

\* the index of the first element of seq that satisfies P, or 0
FirstIndex(seq, P(_)) ==
    IF \E i \in 1..Len(seq) : P(seq[i])
    THEN CHOOSE i \in 1..Len(seq) : P(seq[i]) /\ \A j \in 1..(i - 1) : ~P(seq[j])
    ELSE 0

\* event.description.replace(<backtick>, '') up to the first backtick only
patch_description_first(desc) ==
    LET i == FirstIndex(desc.text, LAMBDA t : t = BACKTICK)
    IN  IF i = 0 THEN desc
        ELSE Description(SubSeq(desc.text, 1, i - 1)
                         \o SubSeq(desc.text, i + 1, Len(desc.text)))

\* line 988: event.description.replace(<backtick>, '') of a description that is
\* a string
patch_description(desc) ==
    Description(SelectSeq(desc.text, LAMBDA t : t # BACKTICK))

\* lines 978-983, Patch 1: the first command named resolveNode gets the
\* ref 'BackendNodeId' in its second parameter; cmd.parameters[1] raises
\* IndexError when the command has fewer than two parameters
fix_DOM(d) ==
    LET i == FirstIndex(d.commands, LAMBDA c : c.name = "resolveNode")
    IN  IF i = 0 THEN [domain |-> d, exc |-> NoneV]
        ELSE IF Len(d.commands[i].parameters) < 2
             THEN [domain |-> d, exc |-> Raised("IndexError", "parameters")]
             ELSE [domain |-> [d EXCEPT !.commands[i].parameters[2].ref =
                                            <<"BackendNodeId">>],
                   exc |-> NoneV]

\* lines 984-989, Patch 2: the first event named
\* screencastVisibilityChanged loses the backticks of its description;
\* None has no attribute replace
fix_Page(d) ==
    LET i == FirstIndex(d.events, LAMBDA ev : ev.name = "screencastVisibilityChanged")
    IN  IF i = 0 THEN [domain |-> d, exc |-> NoneV]
        ELSE IF d.events[i].description.none
             THEN [domain |-> d, exc |-> Raised("AttributeError", "replace")]
             ELSE [domain |-> [d EXCEPT !.events[i].description =
                                            patch_description(@)],
                   exc |-> NoneV]

\* lines 990-996, Patch 3: in every type with the id Cookie, the first
\* property named expires becomes optional
fix_Network(d) ==
    LET fix_type(t) ==
            LET k == FirstIndex(t.properties, LAMBDA p : p.name = "expires")
            IN  IF t.id = "Cookie" /\ k # 0
                THEN [t EXCEPT !.properties[k].optional = TRUE]
                ELSE t
    IN  [domain |-> [d EXCEPT !.types = Map(fix_type, d.types)], exc |-> NoneV]

\* the body of the loop "for domain in domains"
fix_domain(d) ==
    CASE d.domain = "DOM"     -> fix_DOM(d)
      [] d.domain = "Page"    -> fix_Page(d)
      [] d.domain = "Network" -> fix_Network(d)
      [] OTHER                -> [domain |-> d, exc |-> NoneV]

RECURSIVE fix_from(_, _)
fix_from(ds, i) ==
    IF i > Len(ds) THEN [domains |-> ds, exc |-> NoneV]
    ELSE LET r == fix_domain(ds[i])
         IN  IF r.exc # NoneV THEN [domains |-> ds, exc |-> r.exc]
             ELSE fix_from([ds EXCEPT ![i] = r.domain], i + 1)

fix_protocol_spec(ds) == fix_from(ds, 1)

----------------------------------------------------------------------------
(* fix_protocol_spec on lists of domains: the domains that the patches    *)
(* name, in the revisions of the schema that have the defects, that have *)
(* them no more or that lack the element, and a domain with the same     *)
(* declarations that no patch names.                                      *)

\* a parameter of domain dom with a reference
RefParam(name, ref, dom) == CdpProperty(name, "", ref, NoItems, FALSE, dom)

\* a parameter of domain dom of type string
StringParam(name, optional, dom) == CdpProperty(name, "string", NoRef, NoItems, optional, dom)

\* the parameter lists of a command resolveNode
ResolveNodeParameters(dom) ==
    LET nodeId == RefParam("nodeId", <<"NodeId">>, dom)
        objectGroup == StringParam("objectGroup", TRUE, dom)
    IN  {<<>>,
         <<nodeId>>,
         <<nodeId, RefParam("backendNodeId", <<"DOM", DOT, "BackendNodeId">>, dom)>>,
         <<nodeId, RefParam("backendNodeId", <<"BackendNodeId">>, dom)>>,
         <<nodeId, objectGroup>>,
         <<nodeId, objectGroup,
           RefParam("backendNodeId", <<"DOM", DOT, "BackendNodeId">>, dom)>>}

\* the lists of commands of a domain
CommandLists(dom) ==
    LET getNode == CdpCommand("getNode",
                      <<RefParam("nodeId", <<"NodeId">>, dom),
                        RefParam("backendNodeId", <<"DOM", DOT, "BackendNodeId">>, dom)>>,
                      <<>>, dom)
    IN  {<<>>, <<getNode>>}
        \cup {<<CdpCommand("resolveNode", ps, <<>>, dom)>> : ps \in ResolveNodeParameters(dom)}
        \cup {<<getNode, CdpCommand("resolveNode", ps, <<>>, dom)>> :
                  ps \in ResolveNodeParameters(dom)}

\* the descriptions of an event
Descriptions ==
    {NoDescription,
     Description(<<"a", "b">>),
     Description(<<"a", BACKTICK, "b">>),
     Description(<<BACKTICK, "a", BACKTICK>>)}

\* the lists of events of a domain
EventLists(dom) ==
    LET ev(name, desc) == [CdpEvent(name, <<>>, dom) EXCEPT !.description = desc]
    IN  {<<>>}
        \cup {<<ev("screencastVisibilityChanged", desc)>> : desc \in Descriptions}
        \cup {<<ev("frameResized", Description(<<"a", BACKTICK, "b">>)),
                ev("screencastVisibilityChanged", desc)>> : desc \in Descriptions}

\* the lists of types of a domain
TypeLists(dom) ==
    LET name == StringParam("name", FALSE, dom)
        expires(optional) == CdpProperty("expires", "number", NoRef, NoItems, optional, dom)
        record(id, ps) == CdpType(id, "object", NoItems, <<>>, ps)
    IN  {<<>>,
         <<record("Cookie", <<name>>)>>,
         <<record("Cookie", <<name, expires(FALSE)>>)>>,
         <<record("Cookie", <<name, expires(TRUE)>>)>>,
         <<record("CookieParam", <<name, expires(FALSE)>>),
           record("Cookie", <<expires(FALSE), name>>)>>}

\* the domains given to fix_protocol_spec
PatchDomains ==
    {CdpDomain("DOM", <<>>, <<>>, cs, <<>>) : cs \in CommandLists("DOM")}
    \cup {CdpDomain("Page", <<>>, <<>>, <<>>, es) : es \in EventLists("Page")}
    \cup {CdpDomain("Network", <<>>, ts, <<>>, <<>>) : ts \in TypeLists("Network")}
    \cup {CdpDomain("Runtime", <<>>,
                     <<CdpType("Cookie", "object", NoItems, <<>>,
                               <<CdpProperty("expires", "number", NoRef, NoItems,
                                             FALSE, "Runtime")>>)>>,
                     <<CdpCommand("resolveNode",
                                  <<RefParam("nodeId", <<"NodeId">>, "Runtime"),
                                    RefParam("objectId", <<"RemoteObjectId">>, "Runtime")>>,
                                  <<>>, "Runtime")>>,
                     <<[CdpEvent("screencastVisibilityChanged", <<>>, "Runtime")
                          EXCEPT !.description = Description(<<"a", BACKTICK, "b">>)]>>)}

\* the lists of domains given to fix_protocol_spec: domains of different
\* names, in any order
PatchInputs ==
    UNION {{ds \in [1..n -> PatchDomains] :
                \A i, j \in 1..n : i # j => ds[i].domain # ds[j].domain} :
           n \in 1..MaxDomains}

InitPatch ==
    /\ domain = CdpDomain("DOM", <<>>, <<>>, <<>>, <<>>)
    /\ module = NotGenerated
    /\ RunVarsIdle
    /\ mode = "fix_protocol_spec"
    /\ docs = <<>>
    /\ domains \in PatchInputs
    /\ current_version = <<"1", DOT, "3">>
    /\ files = <<>>
    /\ step = Idle
    /\ log = <<>>
    /\ raised = NoneV

\* fix_protocol_spec(domains)
FixProtocolSpec ==
    /\ mode = "fix_protocol_spec"
    /\ Len(log) < MaxApplications
    /\ LET r == fix_protocol_spec(domains)
       IN  /\ domains' = r.domains
           /\ raised' = r.exc
           /\ log' = Append(log, [op |-> "fix", before |-> domains,
                                  after |-> r.domains, exc |-> r.exc])
    /\ UNCHANGED <<domain, module, runVars, mode, docs, current_version, files, step>>

NextPatch == FixProtocolSpec

SpecPatch == InitPatch /\ [][NextPatch]_vars

----------------------------------------------------------------------------
(* Properties of fix_protocol_spec *)

\* C12: a second application of fix_protocol_spec leaves the list of
\* domains as the first application left it, and ends as the first did.
C12_PatchIdempotent ==
    Len(log) >= 2 =>
        /\ log[2].after = log[1].after
        /\ log[2].exc = log[1].exc

\* fix_protocol_spec was applied twice to a list of which the first
\* application changed two domains
C12_Witness ==
    /\ Len(log) = 2
    /\ log[1].exc = NoneV
    /\ Len(log[1].before) = 2
    /\ \A i \in 1..2 : log[1].after[i] # log[1].before[i]

\* C13: no application of fix_protocol_spec raises.
C13_PatchNeverRaises ==
    \A i \in 1..Len(log) : log[i].exc = NoneV

\* the parameter has a reference qualified with its own domain
SelfReferencing(p) == Len(p.ref) = 3 /\ p.ref[2] = DOT /\ p.ref[1] = p.domain

\* a differs from b at most in what the patches name
OnlyTargetsChanged(b, a) ==
    /\ a.domain = b.domain
    /\ a.dependencies = b.dependencies
    /\ Len(a.types) = Len(b.types)
    /\ Len(a.commands) = Len(b.commands)
    /\ Len(a.events) = Len(b.events)
    /\ \A j \in 1..Len(b.types) :
          \/ a.types[j] = b.types[j]
          \/ /\ b.domain = "Network"
             /\ b.types[j].id = "Cookie"
             /\ [a.types[j] EXCEPT !.properties = <<>>] = [b.types[j] EXCEPT !.properties = <<>>]
             /\ Len(a.types[j].properties) = Len(b.types[j].properties)
             /\ \A k \in 1..Len(b.types[j].properties) :
                   \/ a.types[j].properties[k] = b.types[j].properties[k]
                   \/ /\ b.types[j].properties[k].name = "expires"
                      /\ a.types[j].properties[k] =
                            [b.types[j].properties[k] EXCEPT !.optional = TRUE]
    /\ \A j \in 1..Len(b.commands) :
          \/ a.commands[j] = b.commands[j]
          \/ /\ b.domain = "DOM"
             /\ b.commands[j].name = "resolveNode"
             /\ [a.commands[j] EXCEPT !.parameters = <<>>] = [b.commands[j] EXCEPT !.parameters = <<>>]
             /\ Len(a.commands[j].parameters) = Len(b.commands[j].parameters)
             /\ \A k \in 1..Len(b.commands[j].parameters) :
                   \/ a.commands[j].parameters[k] = b.commands[j].parameters[k]
                   \/ /\ SelfReferencing(b.commands[j].parameters[k])
                      /\ a.commands[j].parameters[k] =
                            [b.commands[j].parameters[k] EXCEPT !.ref = <<"BackendNodeId">>]
    /\ \A j \in 1..Len(b.events) :
          \/ a.events[j] = b.events[j]
          \/ /\ b.domain = "Page"
             /\ b.events[j].name = "screencastVisibilityChanged"
             /\ [a.events[j] EXCEPT !.description = NoDescription] =
                   [b.events[j] EXCEPT !.description = NoDescription]

\* C14: after fix_protocol_spec, the list of domains differs from the
\* list before at most in the reference of a self-referencing parameter
\* of DOM.resolveNode, in the description of
\* Page.screencastVisibilityChanged and in the optional flag of
\* Network.Cookie.expires; in particular a resolveNode without
\* self-referencing parameter is unchanged.
C14_PatchFrame ==
    \A i \in 1..Len(log) :
        /\ Len(log[i].after) = Len(log[i].before)
        /\ \A j \in 1..Len(log[i].before) :
              OnlyTargetsChanged(log[i].before[j], log[i].after[j])

----------------------------------------------------------------------------
(* parse, and what makes generate_code raise *)

\* the version this generator understands
SupportedVersion == [major |-> "1", minor |-> "3"]

\* parse without the assert on the version
parse_any_version(doc, version_before) ==
    [domains |-> [i \in 1..Len(doc.domains) |-> doc.domains[i]],
     current_version |-> <<doc.version.major, DOT, doc.version.minor>>,
     exc |-> NoneV]

\* parse: the assert on the version of the document, the assignment to
\* the global current_version, and one CdpDomain per domain object of the
\* document, in the order of the document.  Its outcome is the list it
\* returns, the value of current_version afterwards, and the exception.
parse(doc, version_before) ==
    IF <<doc.version.major, doc.version.minor>> # <<"1", "3">>
    THEN [domains |-> <<>>, current_version |-> version_before,
          exc |-> Raised("AssertionError", "version")]
    ELSE [domains |-> [i \in 1..Len(doc.domains) |-> doc.domains[i]],
          current_version |-> <<doc.version.major, DOT, doc.version.minor>>,
          exc |-> NoneV]

\* CdpPrimitiveType.get_annotation / get_constructor: cls[cdp_type] raises
\* KeyError for a name that is no member of CdpPrimitiveType
is_primitive_type(cdp_type) ==
    cdp_type \in {"any", "boolean", "integer", "number", "object", "string"}

\* rendering the property, parameter or return p raises
CdpProperty_raises(p) ==
    IF truthy(p.items)
    THEN ~truthy(p.items[1].ref) /\ ~is_primitive_type(p.items[1].type)
    ELSE ~truthy(p.ref) /\ ~is_primitive_type(p.type)

\* CdpType.generate_code raises
CdpType_raises(t) ==
    IF truthy(t.enum) THEN FALSE
    ELSE IF truthy(t.properties)
         THEN \E i \in 1..Len(t.properties) : CdpProperty_raises(t.properties[i])
         ELSE IF truthy(t.items)
              THEN ~truthy(t.items[1].ref) /\ ~is_primitive_type(t.items[1].type)
              ELSE ~is_primitive_type(t.type)

\* CdpDomain.generate_code raises
CdpDomain_raises(d) ==
    \/ \E i \in 1..Len(d.types) : CdpType_raises(d.types[i])
    \/ \E i \in 1..Len(d.commands) :
          \E j \in 1..Len(d.commands[i].parameters \o d.commands[i].returns) :
              CdpProperty_raises((d.commands[i].parameters \o d.commands[i].returns)[j])
    \/ \E i \in 1..Len(d.events) :
          \E j \in 1..Len(d.events[i].parameters) :
              CdpProperty_raises(d.events[i].parameters[j])

\* domains.sort(key=operator.attrgetter('domain')): the names of the model
\* in the order of str, the sort being stable
SortedDomainNames == <<"DOM", "Input", "Network", "Page", "Runtime">>

RECURSIVE sort_from(_, _)
sort_from(ds, n) ==
    IF n > Len(SortedDomainNames) THEN <<>>
    ELSE SelectSeq(ds, LAMBDA d : d.domain = SortedDomainNames[n]) \o sort_from(ds, n + 1)

sort_by_domain(ds) == sort_from(ds, 1)

----------------------------------------------------------------------------
(* The pipelines selfgen and cdpgen *)

\* the statements of selfgen (lines 1009-1026) and of cdpgen (lines
\* 1064-1080), with the patcher after the first loop over the domains
pipeline_fix_after_compile == <<"parse", "sort", "compile", "fix", "finish">>

\* the statements of selfgen (lines 1009-1026) and of cdpgen (lines
\* 1064-1080) in their order: the loop over the documents, the sort, the
\* patcher, the loop over the domains, the package files
pipeline == <<"parse", "sort", "fix", "compile", "finish">>

\* the statement after the statement at
StepAfter(at) ==
    LET k == CHOOSE i \in 1..Len(pipeline) : pipeline[i] = at
    IN  IF k = Len(pipeline) THEN [at |-> "done", i |-> 0]
        ELSE [at |-> pipeline[k + 1], i |-> 1]

Failed(i) == [at |-> "failed", i |-> i]

LogEntry(op, i, before, after, exc) ==
    [op |-> op, i |-> i, before |-> before, after |-> after, exc |-> exc]

NoFile == [kind |-> "no file"]
EmptyFile == [kind |-> "empty file"]
StaleFile == [kind |-> "file of an earlier run"]

\* the names of the files of the output directory
FileNames == {snake_case(SortedDomainNames[i]) : i \in 1..Len(SortedDomainNames)}
             \cup {"__init__"}

\* the domain objects of the documents
SchemaDomains ==
    LET dom_command(ps) ==
            [CdpCommand("resolveNode", ps, <<>>, "DOM") EXCEPT !.deprecated = TRUE]
        nodeId == RefParam("nodeId", <<"NodeId">>, "DOM")
        backendNodeId == RefParam("backendNodeId", <<"DOM", DOT, "BackendNodeId">>, "DOM")
        alias(id, type) == CdpType(id, type, NoItems, <<>>, <<>>)
    IN  {CdpDomain("DOM", <<>>, <<alias("BackendNodeId", "integer")>>,
                   <<dom_command(<<nodeId, backendNodeId>>)>>, <<>>),
         CdpDomain("DOM", <<>>, <<>>, <<dom_command(<<nodeId>>)>>, <<>>),
         CdpDomain("Page", <<>>, <<>>, <<>>,
                   <<[CdpEvent("screencastVisibilityChanged", <<>>, "Page")
                        EXCEPT !.description = Description(<<"a", BACKTICK, "b">>),
                               !.deprecated = TRUE]>>),
         CdpDomain("Network", <<>>,
                   <<CdpType("Cookie", "object", NoItems, <<>>,
                             <<CdpProperty("expires", "number", NoRef, NoItems,
                                           FALSE, "Network"),
                               StringParam("name", FALSE, "Network")>>)>>,
                   <<>>, <<>>),
         CdpDomain("Network", <<>>, <<alias("Blob", "array")>>, <<>>, <<>>)}

\* the lists of n domain objects of different names
DomainObjectLists(n) ==
    {ds \in [1..n -> SchemaDomains] :
        \A i, j \in 1..n : i # j => ds[i].domain # ds[j].domain}

\* browser_protocol.json
BrowserProtocols ==
    {[version |-> v, domains |-> ds] :
        v \in {SupportedVersion, [major |-> "1", minor |-> "2"]},
        ds \in UNION {DomainObjectLists(n) : n \in 1..MaxDomains}}

\* js_protocol.json
JsProtocols ==
    {[version |-> v,
      domains |-> <<CdpDomain("Runtime", <<>>,
                              <<CdpType("RemoteObjectId", "string", NoItems, <<>>, <<>>)>>,
                              <<[CdpCommand("getNode", <<>>, <<>>, "Runtime")
                                   EXCEPT !.deprecated = TRUE]>>,
                              <<>>)>>] :
        v \in {SupportedVersion, [major |-> "1", minor |-> "2"]}}

InitGen ==
    /\ domain = CdpDomain("DOM", <<>>, <<>>, <<>>, <<>>)
    /\ module = NotGenerated
    /\ RunVarsIdle
    /\ mode \in {"selfgen", "cdpgen"}
    /\ \E b \in BrowserProtocols, j \in JsProtocols : docs = <<b, j>>
    /\ domains = <<>>
    /\ current_version = <<>>
    /\ files \in {[f \in FileNames |-> NoFile], [f \in FileNames |-> StaleFile]}
    /\ step = [at |-> pipeline[1], i |-> 1]
    /\ log = <<>>
    /\ raised = NoneV

\* the loop is at its element i of n: what follows it
AfterElement(at, i, n) ==
    IF i >= n THEN StepAfter(at) ELSE [at |-> at, i |-> i + 1]

\* domains.extend(parse(json_path, output_path)) for the next document
Parse ==
    /\ step.at = "parse"
    /\ LET r == parse(docs[step.i], current_version)
       IN  /\ current_version' = r.current_version
           /\ domains' = domains \o r.domains
           /\ raised' = r.exc
           /\ step' = IF r.exc # NoneV THEN Failed(step.i)
                      ELSE AfterElement("parse", step.i, Len(docs))
           /\ log' = Append(log, LogEntry("parse", step.i, domains, domains', r.exc))
    /\ UNCHANGED <<domain, module, runVars, mode, docs, files>>

\* domains.sort(key=operator.attrgetter('domain'))
Sort ==
    /\ step.at = "sort"
    /\ domains' = sort_by_domain(domains)
    /\ step' = StepAfter("sort")
    /\ log' = Append(log, LogEntry("sort", 0, domains, domains', NoneV))
    /\ UNCHANGED <<domain, module, runVars, mode, docs, current_version, files, raised>>

\* fix_protocol_spec(domains)
Fix ==
    /\ step.at = "fix"
    /\ LET r == fix_protocol_spec(domains)
       IN  /\ domains' = r.domains
           /\ raised' = r.exc
           /\ step' = IF r.exc # NoneV THEN Failed(0) ELSE StepAfter("fix")
           /\ log' = Append(log, LogEntry("fix", 0, domains, r.domains, r.exc))
    /\ UNCHANGED <<domain, module, runVars, mode, docs, current_version, files>>

\* what a pass of the loop over the domains does besides the file
CompileStep(i, raises) ==
    /\ raised' = IF raises THEN Raised("KeyError", domains[i].domain) ELSE NoneV
    /\ step' = IF raises THEN Failed(i)
               ELSE IF Len(domains) = 0 THEN StepAfter("compile")
               ELSE AfterElement("compile", i, Len(domains))
    /\ log' = Append(log, LogEntry("compile", i, domains, domains, raised'))

\* selfgen, lines 1016-1021: the module file is opened for writing, which
\* creates it or empties it, before domain.generate_code() is evaluated;
\* when that raises the file stays empty
SelfgenModule ==
    /\ mode = "selfgen"
    /\ step.at = "compile"
    /\ step.i <= Len(domains)
    /\ LET d == domains[step.i]
       IN  /\ files' = [files EXCEPT ![CdpDomain_module(d)] =
                            IF CdpDomain_raises(d) THEN EmptyFile
                            ELSE CdpDomain_generate_code(d)]
           /\ CompileStep(step.i, CdpDomain_raises(d))
    /\ UNCHANGED <<domain, module, runVars, mode, docs, domains, current_version>>

\* cdpgen, lines 1071-1073: write_text(domain.generate_code()) evaluates
\* its argument first; when that raises the file is not touched
CdpgenModule ==
    /\ mode = "cdpgen"
    /\ step.at = "compile"
    /\ step.i <= Len(domains)
    /\ LET d == domains[step.i]
       IN  /\ files' = IF CdpDomain_raises(d) THEN files
                        ELSE [files EXCEPT ![CdpDomain_module(d)] =
                                 CdpDomain_generate_code(d)]
           /\ CompileStep(step.i, CdpDomain_raises(d))
    /\ UNCHANGED <<domain, module, runVars, mode, docs, domains, current_version>>

\* generate_init and the other package files: __init__.py names the
\* modules of the domains
Finish ==
    /\ step.at = "finish"
    /\ files' = [files EXCEPT !["__init__"] =
                     [kind |-> "init", modules |-> Map(CdpDomain_module, domains)]]
    /\ step' = StepAfter("finish")
    /\ log' = Append(log, LogEntry("finish", 0, domains, domains, NoneV))
    /\ UNCHANGED <<domain, module, runVars, mode, docs, domains, current_version, raised>>

NextGen == Parse \/ Sort \/ Fix \/ SelfgenModule \/ CdpgenModule \/ Finish

SpecGen == InitGen /\ [][NextGen]_vars

----------------------------------------------------------------------------
(* Claims about the pipelines *)

\* the file holds a module or an __init__ that this run has written
WrittenByThisRun(file) == file \notin {NoFile, EmptyFile, StaleFile}

\* C15: loading a document whose version is not major "1", minor "3"
\* raises, returns no domain for that document and ends the run before any
\* module is compiled; a document of version 1.3 adds one domain model per
\* domain object of the document, in the order of the document.
C15_VersionMismatchFailsFast ==
    \A k \in 1..Len(log) :
        log[k].op = "parse" =>
            LET doc == docs[log[k].i]
            IN  IF doc.version # SupportedVersion
                THEN /\ log[k].exc = Raised("AssertionError", "version")
                     /\ log[k].after = log[k].before
                     /\ k = Len(log)
                     /\ step.at = "failed"
                     /\ \A f \in FileNames : ~WrittenByThisRun(files[f])
                ELSE /\ log[k].exc = NoneV
                     /\ Len(log[k].after) = Len(log[k].before) + Len(doc.domains)
                     /\ \A i \in 1..Len(doc.domains) :
                            log[k].after[Len(log[k].before) + i] = doc.domains[i]

\* the first document, of version 1.3 and with two domain objects, has been
\* loaded and the second, of version 1.2, has been refused
C15_Witness ==
    /\ Len(log) = 2
    /\ log[1].op = "parse" /\ Len(log[1].after) = 2
    /\ log[2].op = "parse" /\ log[2].exc # NoneV
    /\ docs[2].version # SupportedVersion
    /\ step.at = "failed"

\* the positions of the log at which one of ops was done
LogPositions(ops) == {k \in 1..Len(log) : log[k].op \in ops}

\* C16: in selfgen and in cdpgen the patcher runs exactly once, after
\* every document has been parsed and before the first domain is compiled:
\* every module is generated from the patched model, and the patcher does
\* not run once the compilation has started.
C16_PatcherRunsOnce ==
    LET fixes == LogPositions({"fix"})
        parses == LogPositions({"parse"})
        compiles == LogPositions({"compile", "finish"})
    IN  /\ Cardinality(fixes) <= 1
        /\ \A k \in fixes :
              /\ Cardinality({j \in parses : j < k /\ log[j].exc = NoneV}) = Len(docs)
              /\ \A j \in parses \cup compiles : j < k <=> j \in parses
        /\ \A j \in compiles :
              \E k \in fixes : k < j /\ log[k].exc = NoneV
                                    /\ log[j].before = log[k].after
        /\ (step.at \in {"compile", "finish", "done"}
              \/ \E f \in FileNames : WrittenByThisRun(files[f]))
           => Cardinality(fixes) = 1

\* a finished run whose patcher has changed the model and whose modules
\* have been written
C16_Witness ==
    /\ step.at = "done"
    /\ \E k \in LogPositions({"fix"}) : log[k].before # log[k].after
    /\ \E f \in FileNames \ {"__init__"} : WrittenByThisRun(files[f])

\* C19: when compiling a domain fails, the output holds no module of that
\* domain that this run has made, neither a written one nor an empty one.
C19_NoModuleOfFailedDomain ==
    (step.at = "failed" /\ log[Len(log)].op = "compile")
        => files[CdpDomain_module(domains[step.i])] \in {NoFile, StaleFile}

----------------------------------------------------------------------------
(* Compiling the domains in any order and interleaving *)

\* generate_code of a command or event declares 'global current_version'
\* (lines 597, 720) and assigns a value to it
version_after_generate_code_stamped(d) == <<d.domain>>

\* generate_code of a command or event declares 'global current_version'
\* (lines 597, 720) and only reads it: the value after generating code of
\* the domain d
version_after_generate_code(d) == current_version

\* the domains that the pipeline hands to the loop over the domains: parsed
\* from a document of version 1.3 and patched, and such that generate_code
\* returns
CompileInputs ==
    LET runtime == (CHOOSE j \in JsProtocols : TRUE).domains[1]
        schema == {d \in SchemaDomains \cup {runtime} : ~CdpDomain_raises(d)}
        lists == UNION {{ds \in [1..n -> schema] :
                            \A i, j \in 1..n : i # j => ds[i].domain # ds[j].domain} :
                        n \in 1..MaxDomains}
    IN  {fix_protocol_spec(ds).domains : ds \in {l \in lists : fix_protocol_spec(l).exc = NoneV}}

\* the number of pieces of the module of d: the imports, and the code of
\* every type, command and event (CdpDomain.generate_code, lines 806-817)
Pieces(d) == 1 + Len(d.types) + Len(d.commands) + Len(d.events)

\* the module of d before its first piece
NoPieces(d) ==
    [name |-> d.domain, imports |-> <<>>, deprecated_import |-> FALSE,
     types |-> <<>>, commands |-> <<>>, events |-> <<>>]

\* the code so far and the next piece of the module of d, n pieces done
WithNextPiece(so_far, d, n) ==
    LET nt == Len(d.types)
        nc == Len(d.commands)
    IN  IF n = 0 THEN [so_far EXCEPT !.imports = CdpDomain_generate_imports(d),
                                     !.deprecated_import =
                                         CdpDomain_needs_deprecation(d)]
        ELSE IF n <= nt
             THEN [so_far EXCEPT !.types = Append(@, CdpType_generate_code(d.types[n]))]
        ELSE IF n <= nt + nc
             THEN [so_far EXCEPT !.commands =
                      Append(@, CdpCommand_generate_code(d.commands[n - nt]))]
        ELSE [so_far EXCEPT !.events =
                 Append(@, CdpEvent_generate_code(d.events[n - nt - nc]))]

InitCompile ==
    /\ domain = CdpDomain("DOM", <<>>, <<>>, <<>>, <<>>)
    /\ RunVarsIdle
    /\ mode = "compile"
    /\ docs = <<>>
    /\ domains \in CompileInputs
    /\ module = [i \in 1..Len(domains) |-> NoPieces(domains[i])]
    /\ current_version = <<"1", DOT, "3">>
    /\ files = [f \in FileNames |-> NoFile]
    /\ step = [i \in 1..Len(domains) |-> 0]
    /\ log = <<>>
    /\ raised = NoneV

\* domains[i].generate_code() produces its next piece; after the last
\* piece the module file is written
GeneratePiece ==
    \E i \in 1..Len(domains) :
        /\ step[i] < Pieces(domains[i])
        /\ LET d == domains[i]
               so_far == WithNextPiece(module[i], d, step[i])
           IN  /\ module' = [module EXCEPT ![i] = so_far]
               /\ step' = [step EXCEPT ![i] = @ + 1]
               /\ current_version' = version_after_generate_code(d)
               /\ files' = IF step'[i] = Pieces(d)
                            THEN [files EXCEPT ![CdpDomain_module(d)] = so_far]
                            ELSE files
               /\ log' = Append(log, LogEntry("generate_code", i, domains, domains,
                                              NoneV))
        /\ UNCHANGED <<domain, runVars, mode, docs, domains, raised>>

NextCompile == GeneratePiece

SpecCompile == InitCompile /\ [][NextCompile]_vars

\* C20: compiling the domains in any order and interleaving gives for each
\* domain the module that compiling it alone gives, and no step of a
\* compilation changes the domain models or current_version, which the
\* other compilations read.
C20_CompileIndependent ==
    /\ current_version = <<"1", DOT, "3">>
    /\ \A k \in 1..Len(log) : log[k].before = domains /\ log[k].after = domains
    /\ \A i \in 1..Len(domains) :
          step[i] = Pieces(domains[i]) =>
              /\ module[i] = CdpDomain_generate_code(domains[i])
              /\ files[CdpDomain_module(domains[i])] = CdpDomain_generate_code(domains[i])

\* two domains with deprecated declarations have been compiled, the pieces
\* of the second begun before the first was finished, and the first
\* finished before the second
C20_Witness ==
    /\ Len(domains) = 2
    /\ \A i \in 1..2 : step[i] = Pieces(domains[i])
    /\ \A i \in 1..2 :
          \E c \in Range(module[i].commands) \cup Range(module[i].events) :
              c.decorator = <<current_version>>
    /\ \E j, k, l \in 1..Len(log) :
          j < k /\ k < l /\ log[j].i = 1 /\ log[k].i = 2 /\ log[l].i = 1

----------------------------------------------------------------------------
(* Claims about the generator, continued *)

\* C21: generate_code of a domain, with generate_imports and generate_code
\* of its types, commands and events, leaves every entity of the model as
\* it was: the properties of a record and the parameters of a command stay
\* in IDL order although the generated declarations are sorted.
C21_CompileKeepsModel == [][GenerateCode => domain' = domain]_vars

\* a module has been generated whose record class declares its fields in
\* another order than the IDL has them
C21_Witness ==
    /\ Generated
    /\ module.types[1].kind = "class"
    /\ Len(domain.types[1].properties) = 2
    /\ module.types[1].decls[1] = CdpProperty_generate_decl(domain.types[1].properties[2])
    /\ module.types[1].decls[1] # CdpProperty_generate_decl(domain.types[1].properties[1])

\* C22: a generated module imports the name deprecated exactly when a
\* command or an event of its domain is flagged deprecated, which is
\* exactly when one of its generated commands or events carries the
\* decorator @deprecated.
C22_DeprecationImport ==
    Generated =>
        /\ module.deprecated_import <=>
              \/ \E i \in 1..Len(domain.commands) : domain.commands[i].deprecated
              \/ \E i \in 1..Len(domain.events) : domain.events[i].deprecated
        /\ module.deprecated_import <=>
              \/ \E i \in 1..Len(module.commands) : module.commands[i].decorator # <<>>
              \/ \E i \in 1..Len(module.events) : module.events[i].decorator # <<>>

\* a module generated from a domain whose event is deprecated and whose
\* command is not
C22_Witness ==
    /\ Generated
    /\ module.deprecated_import
    /\ module.events[1].decorator = <<current_version>>
    /\ module.commands[1].decorator = <<>>

----------------------------------------------------------------------------
(* Claims about the emitted bindings, continued *)

\* C23: the yielded request descriptor has the entry 'params' exactly when
\* the command declares a parameter: without declared parameters it has
\* only 'method', and when every declared parameter is optional and None
\* its 'params' is the empty mapping.
C23_ParamsEntry ==
    (IsCommand /\ yielded # <<>>) =>
        LET c == binding.decl
            d == yielded[1]
        IN  /\ d.has_params <=> Len(c.parameters) >= 1
            /\ Len(c.parameters) = 0 => d = CmdDict(<<c.domain, DOT, c.name>>, FALSE, EmptyDict)
            /\ (/\ Len(c.parameters) >= 1
                /\ \A i \in 1..Len(c.parameters) :
                      c.parameters[i].optional /\ args.l[i] = NoneV)
               => d.has_params /\ d.params = EmptyDict

\* a request was yielded for a call of a command with two optional
\* parameters, both None
C23_Witness ==
    /\ IsCommand
    /\ yielded # <<>>
    /\ Len(binding.decl.parameters) = 2
    /\ \A i \in 1..2 : binding.decl.parameters[i].optional /\ args.l[i] = NoneV
    /\ yielded[1].has_params
    /\ yielded[1].params = EmptyDict

====
